---- MODULE Spec2Model ----
(***************************************************************************)
(* BlindSpot recommendation engine (POST /api/recommend): the request      *)
(* handler, its process-wide result cache, the three source fetches and    *)
(* the advisory rerank call, as a state machine.                           *)
(*                                                                         *)
(* Conventions of the model                                                *)
(*  - strings are TLA+ strings, read character by character with SubSeq;   *)
(*  - latitudes are integers in units of 1e-5 degree; every modelled point *)
(*    lies on the meridian of the query point, where the haversine         *)
(*    distance is exactly R * |dLat|;                                      *)
(*  - distances are integers in millimetres;                               *)
(*  - scores are integers in units of 1e-4;                                *)
(*  - times are integers in milliseconds;                                  *)
(*  - a JavaScript number is a record: Num(n) or NaNv.                     *)
(***************************************************************************)
EXTENDS Integers, Sequences, FiniteSets, TLC

VARIABLES
    apiKey,     \* process.env.GEMINI_API_KEY is set
    memCache,   \* the module-level Map: cacheKey -> [at, data]
    clock,      \* Date.now()
    req,        \* per request slot: position in POST and its locals
    hist,       \* history: per cacheKey, when it was last written (clock)
    fn          \* input/output of a pure function under test

vars == <<apiKey, memCache, clock, req, hist, fn>>

-----------------------------------------------------------------------------
(* Characters and strings *)

Chr(s, i) == SubSeq(s, i, i)

UpperSeq ==
    <<"A","B","C","D","E","F","G","H","I","J","K","L","M",
      "N","O","P","Q","R","S","T","U","V","W","X","Y","Z">>

LowerSeq ==
    <<"a","b","c","d","e","f","g","h","i","j","k","l","m",
      "n","o","p","q","r","s","t","u","v","w","x","y","z">>

DigitSeq == <<"0","1","2","3","4","5","6","7","8","9">>

UpperSet == {UpperSeq[i] : i \in 1..26}

LowerSet == {LowerSeq[i] : i \in 1..26}

DigitSet == {DigitSeq[i] : i \in 1..10}

\* \s of the regular expressions
SpaceSet == {" ", "\t", "\n"}

\* String.prototype.toLowerCase, one character
ToLowerChar(c) ==
    IF c \in UpperSet
    THEN LowerSeq[CHOOSE i \in 1..26 : UpperSeq[i] = c]
    ELSE c

RECURSIVE ToLowerCase(_)
ToLowerCase(s) ==
    IF s = "" THEN "" ELSE ToLowerChar(Head(s)) \o ToLowerCase(Tail(s))

\* .replace(/[']/g, "")
RECURSIVE StripApostrophes(_)
StripApostrophes(s) ==
    IF s = "" THEN ""
    ELSE IF Head(s) = "'" THEN StripApostrophes(Tail(s))
    ELSE Head(s) \o StripApostrophes(Tail(s))

\* .replace(/[^a-z0-9\s]/g, " ")
RECURSIVE PunctToSpace(_)
PunctToSpace(s) ==
    IF s = "" THEN ""
    ELSE (IF Head(s) \in LowerSet \cup DigitSet \cup SpaceSet THEN Head(s) ELSE " ")
         \o PunctToSpace(Tail(s))

\* .replace(/\s+/g, " ")
RECURSIVE CollapseSpaces(_)
CollapseSpaces(s) ==
    IF s = "" THEN ""
    ELSE IF Head(s) \in SpaceSet
         THEN IF Len(s) > 1 /\ Chr(s, 2) \in SpaceSet
              THEN CollapseSpaces(Tail(s))
              ELSE " " \o CollapseSpaces(Tail(s))
         ELSE Head(s) \o CollapseSpaces(Tail(s))

RECURSIVE TrimLeft(_)
TrimLeft(s) ==
    IF s # "" /\ Head(s) \in SpaceSet THEN TrimLeft(Tail(s)) ELSE s

RECURSIVE TrimRight(_)
TrimRight(s) ==
    IF s # "" /\ Chr(s, Len(s)) \in SpaceSet
    THEN TrimRight(SubSeq(s, 1, Len(s) - 1))
    ELSE s

\* String.prototype.trim
Trim(s) == TrimRight(TrimLeft(s))

\* String.prototype.slice(0, n)
Slice0(s, n) == SubSeq(s, 1, IF Len(s) < n THEN Len(s) ELSE n)

normalizeText(s) ==
    Trim(CollapseSpaces(PunctToSpace(StripApostrophes(ToLowerCase(s)))))

normalizeNameForKey(name) ==
    Trim(CollapseSpaces(PunctToSpace(StripApostrophes(ToLowerCase(name)))))

\* String.prototype.includes
Includes(t, n) ==
    \E i \in 1..(Len(t) - Len(n) + 1) : SubSeq(t, i, i + Len(n) - 1) = n

\* s.split(" ").filter(Boolean), as the set of its tokens
RECURSIVE TokensFrom(_, _)
TokensFrom(s, cur) ==
    IF s = "" THEN (IF cur = "" THEN {} ELSE {cur})
    ELSE IF Head(s) = " "
         THEN (IF cur = "" THEN {} ELSE {cur}) \cup TokensFrom(Tail(s), "")
         ELSE TokensFrom(Tail(s), cur \o Head(s))

Tokens(s) == TokensFrom(s, "")

Max(a, b) == IF a >= b THEN a ELSE b

Min(a, b) == IF a <= b THEN a ELSE b

Abs(a) == IF a < 0 THEN -a ELSE a

-----------------------------------------------------------------------------
(* JavaScript values *)

\* A JSON value of the request body
Undef == [k |-> "undef", n |-> 0, s |-> ""]

JNull == [k |-> "null", n |-> 0, s |-> ""]

JNum(x) == [k |-> "num", n |-> x, s |-> ""]

JStr(x) == [k |-> "str", n |-> 0, s |-> x]

\* A JavaScript number
Num(x) == [nan |-> FALSE, v |-> x]

NaNv == [nan |-> TRUE, v |-> 0]

RECURSIVE ParseDigits(_, _)
ParseDigits(s, acc) ==
    IF s = "" THEN acc
    ELSE ParseDigits(Tail(s), acc * 10 + ((CHOOSE i \in 1..10 : DigitSeq[i] = Head(s)) - 1))

\* Number(x): undefined -> NaN, null -> 0, "" -> 0, a digit string -> its
\* value, any other string -> NaN
StringToNumber(t) ==
    IF \A i \in 1..Len(t) : Chr(t, i) \in DigitSet THEN Num(ParseDigits(t, 0)) ELSE NaNv

ToNumber(j) ==
    CASE j.k = "undef" -> NaNv
      [] j.k = "null"  -> Num(0)
      [] j.k = "num"   -> Num(j.n)
      [] j.k = "str"   -> StringToNumber(Trim(j.s))

\* JavaScript truthiness of a JSON value
Truthy(j) ==
    CASE j.k = "undef" -> FALSE
      [] j.k = "null"  -> FALSE
      [] j.k = "num"   -> j.n # 0
      [] j.k = "str"   -> j.s # ""

isFinite(x) == ~x.nan

\* Math.min / Math.max of a constant and a JavaScript number
MathMinC(c, x) == IF x.nan THEN NaNv ELSE Num(Min(c, x.v))

MathMaxC(c, x) == IF x.nan THEN NaNv ELSE Num(Max(c, x.v))

\* n >= x for an integer n and a JavaScript number x (false on NaN)
GeqJs(n, x) == ~x.nan /\ n >= x.v

\* Array.prototype.slice(0, x): NaN is taken as 0
SliceJs(seq, x) ==
    IF x.nan \/ x.v <= 0 THEN <<>>
    ELSE SubSeq(seq, 1, Min(Len(seq), x.v))

\* Math.ceil(x / 3)
CeilDiv3(x) == IF x.nan THEN NaNv ELSE Num((x.v + 2) \div 3)

\* UTF-16 code unit of the characters the model uses
CharCode(c) ==
    CASE c \in LowerSet -> 96 + (CHOOSE i \in 1..26 : LowerSeq[i] = c)
      [] c \in UpperSet -> 64 + (CHOOSE i \in 1..26 : UpperSeq[i] = c)
      [] c \in DigitSet -> 47 + (CHOOSE i \in 1..10 : DigitSeq[i] = c)
      [] c = " " -> 32
      [] c = "!" -> 33
      [] c = "'" -> 39
      [] c = "-" -> 45
      [] c = "_" -> 95
      [] c = "|" -> 124
      [] OTHER -> 63

\* the default comparison of Array.prototype.sort: by code units
RECURSIVE StrLess(_, _)
StrLess(a, b) ==
    IF b = "" THEN FALSE
    ELSE IF a = "" THEN TRUE
    ELSE IF Head(a) = Head(b) THEN StrLess(Tail(a), Tail(b))
    ELSE CharCode(Head(a)) < CharCode(Head(b))

\* new Set(array): its elements, first occurrences in order
RECURSIVE SetOfArray(_)
SetOfArray(a) ==
    IF a = <<>> THEN <<>>
    ELSE LET init == SetOfArray(SubSeq(a, 1, Len(a) - 1))
             x == a[Len(a)]
         IN  IF \E i \in 1..Len(init) : init[i] = x THEN init ELSE Append(init, x)

\* [...set].sort()
RECURSIVE SortStrings(_)
SortStrings(S) ==
    IF S = {} THEN <<>>
    ELSE LET m == CHOOSE x \in S : \A y \in S \ {x} : StrLess(x, y)
         IN  <<m>> \o SortStrings(S \ {m})

\* Array.prototype.join
RECURSIVE Join(_, _)
Join(a, sep) ==
    IF a = <<>> THEN ""
    ELSE IF Len(a) = 1 THEN a[1]
    ELSE a[1] \o sep \o Join(Tail(a), sep)

RECURSIVE Reverse(_)
Reverse(a) == IF a = <<>> THEN <<>> ELSE Append(Reverse(Tail(a)), Head(a))

Range(f) == {f[i] : i \in DOMAIN f}

-----------------------------------------------------------------------------
(* quickHashBase36: FNV-1a on 32 bits, kept as two 16-bit halves *)

RECURSIVE Xor(_, _)
Xor(a, b) ==
    IF a = 0 /\ b = 0 THEN 0
    ELSE (((a % 2) + (b % 2)) % 2) + 2 * Xor(a \div 2, b \div 2)

\* Math.imul(x, 16777619) for x = hi * 2^16 + lo and p = lo * 403, as two
\* 16-bit halves: 16777619 = 2^24 + 403
FnvMix(hi, lo, p) ==
    [lo |-> p % 65536,
     hi |-> (hi * 403 + (p \div 65536) + (lo % 256) * 256) % 65536]

FnvMul(hi, lo) == FnvMix(hi, lo, lo * 403)

\* h = Math.imul(h ^ code, 16777619)
FnvStep(h, code) == FnvMul(h.hi, Xor(h.lo, code))

RECURSIVE FnvFold(_, _)
FnvFold(h, s) ==
    IF s = "" THEN h ELSE FnvFold(FnvStep(h, CharCode(Head(s))), Tail(s))

Base36Seq ==
    <<"0","1","2","3","4","5","6","7","8","9","a","b","c","d","e","f","g","h",
      "i","j","k","l","m","n","o","p","q","r","s","t","u","v","w","x","y","z">>

\* (h >>> 0).toString(36): t is the low half with the remainder of the high
\* half carried into it
RECURSIVE Base36From(_, _)
Base36From(qhi, t) ==
    IF qhi = 0 /\ t \div 36 = 0 THEN Base36Seq[(t % 36) + 1]
    ELSE Base36From(qhi \div 36, (qhi % 36) * 65536 + (t \div 36)) \o Base36Seq[(t % 36) + 1]

ToBase36(h) == Base36From(h.hi \div 36, (h.hi % 36) * 65536 + h.lo)

\* 2166136261 = 33052 * 65536 + 40389
quickHashBase36(s) == ToBase36(FnvFold([hi |-> 33052, lo |-> 40389], s))

-----------------------------------------------------------------------------
(* Geometry and the hexagonal grid *)

\* haversineMeters, in millimetres, for two points of the same meridian
\* (dLon = 0): 2R asin(|sin(dLat/2)|) = R |dLat|, and R * pi/180 * 1e-5
\* degree = 1.11195 m.
haversineMeters(aLat, aLon, bLat, bLon) == (Abs(bLat - aLat) * 111195) \div 100

\* Width of a grid cell along the meridian, in latitude units, per
\* resolution: a resolution-9 cell holds three resolution-10 cells.
CellWidth(res) ==
    CASE res = 9 -> 360
      [] res = 10 -> 120
      [] res = 13 -> 6

\* h3-js on the meridian: a cell is <<resolution, index>>
latLngToCell(lat, lon, res) == <<res, lat \div CellWidth(res)>>

cellToParent(cell, res) == <<res, (cell[2] * CellWidth(cell[1])) \div CellWidth(res)>>

cellToLatLng(cell) ==
    <<cell[2] * CellWidth(cell[1]) + (CellWidth(cell[1]) \div 2), 0>>

\* gridDisk(h, k): the cell first, then its ring
gridDisk(cell, k) ==
    <<cell>> \o [i \in 1..(2 * k) |->
                    <<cell[1], cell[2] + (IF i % 2 = 1 THEN -((i + 1) \div 2) ELSE i \div 2)>>]

-----------------------------------------------------------------------------
(* Intents *)

PlaceKinds ==
    {"police", "mall", "mcd", "park", "cafe", "library", "parking",
     "community_centre", "community_hotspot"}

\* a classifier that tries the night keywords before the others
ClassifyNightFirst(t) ==
        IF Includes(t, "night") \/ Includes(t, "walk") \/ Includes(t, "parking")
           \/ Includes(t, "late")
        THEN "night_walk"
        ELSE IF Includes(t, "facebook") \/ Includes(t, "marketplace") \/ Includes(t, "sell")
                \/ Includes(t, "buyer") \/ Includes(t, "cash")
        THEN "facebook_marketplace_sale"
        ELSE IF Includes(t, "date") \/ Includes(t, "tinder") \/ Includes(t, "hinge")
                \/ Includes(t, "first time")
        THEN "first_date"
        ELSE "general_safe_meetup"

ClassifyNormalized(t) ==
        IF Includes(t, "facebook") \/ Includes(t, "marketplace") \/ Includes(t, "sell")
           \/ Includes(t, "buyer") \/ Includes(t, "cash")
        THEN "facebook_marketplace_sale"
        ELSE IF Includes(t, "date") \/ Includes(t, "tinder") \/ Includes(t, "hinge")
                \/ Includes(t, "first time")
        THEN "first_date"
        ELSE IF Includes(t, "night") \/ Includes(t, "walk") \/ Includes(t, "parking")
                \/ Includes(t, "late")
        THEN "night_walk"
        ELSE "general_safe_meetup"

classifyIntent(text) == ClassifyNormalized(normalizeText(text))

\* kindWeight is in hundredths
intentConfig(intent) ==
    CASE intent = "facebook_marketplace_sale" ->
            [radiusM |-> 6500, maxDistanceM |-> 6500,
             kindWeight |-> [police |-> 100, parking |-> 80, mall |-> 75,
                             community_centre |-> 65, cafe |-> 45, library |-> 55,
                             park |-> 35, mcd |-> 45, community_hotspot |-> 55],
             label |-> "Marketplace sale",
             kindsQuery |-> <<"police", "parking", "mall", "community_centre",
                              "library", "cafe", "mcd">>]
      [] intent = "first_date" ->
            [radiusM |-> 5000, maxDistanceM |-> 5000,
             kindWeight |-> [cafe |-> 100, mall |-> 80, park |-> 70, library |-> 60,
                             community_centre |-> 60, mcd |-> 50, police |-> 25,
                             parking |-> 30, community_hotspot |-> 50],
             label |-> "First date",
             kindsQuery |-> <<"cafe", "mall", "park", "library", "community_centre",
                              "mcd">>]
      [] intent = "night_walk" ->
            [radiusM |-> 4000, maxDistanceM |-> 4000,
             kindWeight |-> [police |-> 100, parking |-> 75, mall |-> 60, cafe |-> 45,
                             library |-> 35, community_centre |-> 55, park |-> 25,
                             mcd |-> 45, community_hotspot |-> 55],
             label |-> "Night walk",
             kindsQuery |-> <<"police", "parking", "mall", "mcd", "community_centre">>]
      [] OTHER ->
            [radiusM |-> 5500, maxDistanceM |-> 5500,
             kindWeight |-> [police |-> 75, mall |-> 75, cafe |-> 75, park |-> 60,
                             library |-> 60, community_centre |-> 65, parking |-> 55,
                             mcd |-> 55, community_hotspot |-> 55],
             label |-> "Safe meetup",
             kindsQuery |-> <<"police", "mall", "cafe", "park", "library",
                              "community_centre", "parking", "mcd">>]

\* a range filter with a margin of 10% instead of 5%
TooFarWide(d, cfg) == d > cfg.maxDistanceM * 1100

\* d > cfg.maxDistanceM * 1.05, d in millimetres
TooFar(d, cfg) == d > cfg.maxDistanceM * 1050

-----------------------------------------------------------------------------
(* Name matching *)

\* nameMatchScore past its normalization, in hundredths (rounded down: its
\* users compare it with whole hundredths)
NameMatchTokens(A, B, aToks, bToks) ==
    IF A = "" \/ B = "" THEN 0
    ELSE IF A = B THEN 100
    ELSE Max((Cardinality(aToks \cap bToks) * 100)
                \div Max(1, Min(Cardinality(aToks), Cardinality(bToks))),
             IF Includes(A, B) \/ Includes(B, A) THEN 35 ELSE 0)

NameMatchNormalized(A, B) == NameMatchTokens(A, B, Tokens(A), Tokens(B))

nameMatchScore(a, b) == NameMatchNormalized(normalizeText(a), normalizeText(b))

\* promptMentionsPlace, in hundredths
PromptMentionsNormalized(t, n) ==
    IF t = "" \/ n = "" THEN 0
    ELSE IF Includes(t, n) THEN 100
    ELSE IF \E x \in Tokens(n) : Len(x) >= 4 /\ Includes(t, x) THEN 55
    ELSE 0

promptMentionsPlace(text, placeName) ==
    PromptMentionsNormalized(normalizeText(text), normalizeText(placeName))

-----------------------------------------------------------------------------
(* Scoring context: cameras and community reports per grid cell *)

CAM_RES == 10

HOTSPOT_RES == 9

\* camCounts.get(h) || 0
CamCount(cameras, h) ==
    Cardinality({i \in DOMAIN cameras :
                    latLngToCell(cameras[i].lat, cameras[i].lon, CAM_RES) = h})

\* the last index of a non-empty set of indices
LastOf(idx) == CHOOSE i \in idx : \A j \in idx : j <= i

\* repMap.get(h): the last row of the cell, <<>> when there is none
RepGetAt(reportCells, idx) == IF idx = {} THEN <<>> ELSE <<reportCells[LastOf(idx)]>>

RepGet(reportCells, h) ==
    RepGetAt(reportCells, {i \in DOMAIN reportCells : reportCells[i].h3_index = h})

\* safeNum(cell?.field)
CellYes(c) == IF c = <<>> THEN 0 ELSE c[1].camera_present_count

CellNo(c) == IF c = <<>> THEN 0 ELSE c[1].camera_absent_count

CellSignage(c) == IF c = <<>> THEN 0 ELSE c[1].signage_count

CellPlaceName(c) == IF c = <<>> THEN "" ELSE c[1].place_name

CellWeight(c) == CellYes(c) + CellNo(c) + CellSignage(c)

\* one turn of the loop of pickBestNearbyReportCell: <<best, bestW>>
PickStep(c, best) ==
    IF c # <<>> /\ CellWeight(c) > best[2] THEN <<c, CellWeight(c)>> ELSE best

RECURSIVE PickBestFrom(_, _, _)
PickBestFrom(reportCells, disk, best) ==
    IF disk = <<>> THEN best[1]
    ELSE PickBestFrom(reportCells, Tail(disk), PickStep(RepGet(reportCells, Head(disk)), best))

pickBestNearbyReportCell(reportCells, h3, k) ==
    PickBestFrom(reportCells, gridDisk(h3, k), <<<<>>, -1>>)

-----------------------------------------------------------------------------
(* Hotspots *)

RECURSIVE IntToStr(_)
IntToStr(n) ==
    IF n < 10 THEN DigitSeq[n + 1]
    ELSE IntToStr(n \div 10) \o DigitSeq[(n % 10) + 1]

\* the text of a cell index
CellStr(cell) == IntToStr(cell[1]) \o "-" \o IntToStr(cell[2])

\* an update of prev in which a later child wins on equal yes
AggPutLastWins(agg, at, parent, child, yes, no) ==
    IF at = {}
    THEN Append(agg, [parent |-> parent, yes |-> yes, no |-> no, count |-> 1,
                      bestChild |-> child, bestYes |-> yes])
    ELSE [agg EXCEPT ![LastOf(at)] =
             [parent |-> parent,
              yes |-> @.yes + yes,
              no |-> @.no + no,
              count |-> @.count + 1,
              bestChild |-> IF yes >= @.bestYes THEN child ELSE @.bestChild,
              bestYes |-> IF yes >= @.bestYes THEN yes ELSE @.bestYes]]

\* agg.set(parent, ...) or the update of prev, for one qualifying row
AggPut(agg, at, parent, child, yes, no) ==
    IF at = {}
    THEN Append(agg, [parent |-> parent, yes |-> yes, no |-> no, count |-> 1,
                      bestChild |-> child, bestYes |-> yes])
    ELSE [agg EXCEPT ![LastOf(at)] =
             [parent |-> parent,
              yes |-> @.yes + yes,
              no |-> @.no + no,
              count |-> @.count + 1,
              bestChild |-> IF yes > @.bestYes THEN child ELSE @.bestChild,
              bestYes |-> IF yes > @.bestYes THEN yes ELSE @.bestYes]]

AggRow(agg, c, parent) ==
    IF c.camera_present_count < 2 THEN agg
    ELSE AggPut(agg, {i \in DOMAIN agg : agg[i].parent = parent}, parent, c.h3_index,
                c.camera_present_count, c.camera_absent_count)

\* the loop over reportCells that fills agg: one entry per parent cell, in
\* the order of first appearance
RECURSIVE AggFold(_, _)
AggFold(reportCells, agg) ==
    IF reportCells = <<>> THEN agg
    ELSE AggFold(Tail(reportCells),
                 AggRow(agg, Head(reportCells),
                        cellToParent(Head(reportCells).h3_index, HOTSPOT_RES)))

SynthesizedName(n, yes) ==
    IF n # "" THEN n
    ELSE IF yes >= 5 THEN "Community confirmed camera area"
    ELSE "Community reported camera area"

HotspotName(reportCells, a) ==
    SynthesizedName(Trim(CellPlaceName(RepGet(reportCells, a.bestChild))), a.yes)

\* hotspots.push(...) unless the centre of the best child is out of range
HotspotAt(a, center, d, reportCells, cfg) ==
    IF TooFar(d, cfg) THEN <<>>
    ELSE <<[id |-> "community/" \o CellStr(a.parent),
            kind |-> "community_hotspot",
            name |-> HotspotName(reportCells, a),
            lat |-> center[1],
            lon |-> center[2]]>>

HotspotOf(a, center, reportCells, lat, lon, cfg) ==
    HotspotAt(a, center, haversineMeters(lat, lon, center[1], center[2]), reportCells, cfg)

RECURSIVE HotspotsFrom(_, _, _, _, _)
HotspotsFrom(agg, reportCells, lat, lon, cfg) ==
    IF agg = <<>> THEN <<>>
    ELSE HotspotOf(Head(agg), cellToLatLng(Head(agg).bestChild), reportCells, lat, lon, cfg)
         \o HotspotsFrom(Tail(agg), reportCells, lat, lon, cfg)

\* hotspots[] of POST
BuildHotspots(reportCells, communityEnabled, lat, lon, cfg) ==
    IF communityEnabled
    THEN HotspotsFrom(AggFold(reportCells, <<>>), reportCells, lat, lon, cfg)
    ELSE <<>>

-----------------------------------------------------------------------------
(* scorePlace *)

\* clamp01(Math.log1p(camsK1) / Math.log(19)) * 1.1, in 1e-4
CamScoreTable ==
    <<0, 2589, 4104, 5179, 6013, 6694, 7270, 7768, 8209, 8602, 8958, 9283, 9582,
      9859, 10117, 10358, 10584, 10798, 11000>>

CamScore(camsK1) == IF camsK1 >= 18 THEN 11000 ELSE CamScoreTable[camsK1 + 1]

RECURSIVE SumCams(_, _)
SumCams(cameras, neighbors) ==
    IF neighbors = <<>> THEN 0
    ELSE CamCount(cameras, Head(neighbors)) + SumCams(cameras, Tail(neighbors))

\* a sub-score whose penalty for six denials is below that for four
RepScoreDipping(yes, no) ==
    (IF yes >= 6 THEN 28750 ELSE IF yes >= 4 THEN 23750
     ELSE IF yes >= 2 THEN 17500 ELSE IF yes >= 1 THEN 7500 ELSE 0)
    - (IF no >= 6 THEN 8750 ELSE IF no >= 4 THEN 17500
       ELSE IF no >= 2 THEN 8750 ELSE IF no >= 1 THEN 3750 ELSE 0)

\* repScore * 2.5, in 1e-4
RepScore(yes, no) ==
    (IF yes >= 6 THEN 28750 ELSE IF yes >= 4 THEN 23750
     ELSE IF yes >= 2 THEN 17500 ELSE IF yes >= 1 THEN 7500 ELSE 0)
    - (IF no >= 6 THEN 23750 ELSE IF no >= 4 THEN 17500
       ELSE IF no >= 2 THEN 8750 ELSE IF no >= 1 THEN 3750 ELSE 0)

\* clamp01(1 - d / cfg.maxDistanceM) * 1.7, in 1e-4
DistScore(d, cfg) ==
    IF d >= cfg.maxDistanceM * 1000 THEN 0
    ELSE ((cfg.maxDistanceM * 1000 - d) * 17) \div cfg.maxDistanceM

\* clamp01(signage / 4) * 0.35, in 1e-4
SignageScore(signage) == (Min(4, Max(0, signage)) * 3500) \div 4

PlaceMatchBoost(match) == IF match >= 75 THEN 4500 ELSE IF match >= 45 THEN 2200 ELSE 0

\* (typeW - 0.55) * 0.8, in 1e-4
TypeBonus(kind, cfg) ==
    ((IF kind \in PlaceKinds THEN cfg.kindWeight[kind] ELSE 55) - 55) * 80

RECURSIVE ReplaceUnderscores(_)
ReplaceUnderscores(s) ==
    IF s = "" THEN ""
    ELSE (IF Head(s) = "_" THEN " " ELSE Head(s)) \o ReplaceUnderscores(Tail(s))

\* an attribution that borrows the best nearby row whatever its name
AttributedFromUngated(pl, own, bestNearby) ==
    IF own # <<>> THEN own ELSE bestNearby

\* the report row attributed to a place: its own cell's, else the best
\* nearby one when the names match
AttributedFrom(pl, own, bestNearby) ==
    IF own # <<>> THEN own
    ELSE IF nameMatchScore(pl.name, CellPlaceName(bestNearby)) >= 45 THEN bestNearby
    ELSE <<>>

AttributedCell(pl, placeH3, reportCells) ==
    AttributedFrom(pl, RepGet(reportCells, placeH3),
                   pickBestNearbyReportCell(reportCells, placeH3, 1))

Reasons(kind, yes, no, signage, camsK1, matched, prompted) ==
    (IF matched THEN <<"Matches community reports for this place">> ELSE <<>>)
    \o (IF prompted THEN <<"Matches your request">> ELSE <<>>)
    \o (IF kind = "community_hotspot"
        THEN (IF yes >= 5 THEN <<"Community confirmed camera presence">>
              ELSE <<"Community reports camera presence">>)
        ELSE <<"Type: " \o ReplaceUnderscores(kind)>>)
    \o (IF yes >= 5 THEN <<"High community confidence">>
        ELSE IF yes >= 2 THEN <<"Some community confirmation">>
        ELSE IF no >= 2 THEN <<"Community reports fewer cameras">>
        ELSE <<>>)
    \o (IF camsK1 >= 6 THEN <<"High camera marker density nearby">>
        ELSE IF camsK1 >= 2 THEN <<"Some camera markers nearby">>
        ELSE <<"Camera coverage uncertain (map data can be incomplete)">>)
    \o (IF signage >= 1 THEN <<"Signage mentioned nearby">> ELSE <<>>)
    \o (IF yes > 0 /\ no > 0 THEN <<"Conflicting community reports">> ELSE <<>>)

\* the item pushed by scorePlace, from the values it has computed. Of the
\* report fields copied into the item only report_place_name is kept: the
\* others (summary, signage text, kind, id, source, address, details) are
\* read by nothing in this route.
ScoredItem(pl, d, placeH3, camsInCell, camsK1, yes, no, signage, reportPlaceName, match, prompted, cfg) ==
    [place |-> pl,
     score |-> RepScore(yes, no) + SignageScore(signage) + DistScore(d, cfg)
               + CamScore(camsK1) + TypeBonus(pl.kind, cfg) + PlaceMatchBoost(match)
               + (IF prompted THEN 3500 ELSE 0)
               - (IF reportPlaceName # "" /\ match < 20 THEN 1000 ELSE 0)
               - (IF yes > 0 /\ no > 0 THEN 3500 ELSE 0)
               - (IF pl.kind = "community_hotspot" /\ camsK1 = 0 /\ yes < 5
                  THEN 2800 ELSE 0),
     distance_m |-> d,
     h3 |-> placeH3,
     cameras_in_k1 |-> camsK1,
     cameras_in_cell |-> camsInCell,
     report_yes |-> yes,
     report_no |-> no,
     report_signage |-> signage,
     conflict |-> yes > 0 /\ no > 0,
     reasons |-> Reasons(pl.kind, yes, no, signage, camsK1, PlaceMatchBoost(match) > 0,
                         prompted),
     report_place_name |-> reportPlaceName]

ScoreWithCell(pl, d, placeH3, camsInCell, camsK1, cell, reportPlaceName, text, cfg) ==
    ScoredItem(pl, d, placeH3, camsInCell, camsK1, CellYes(cell), CellNo(cell),
               CellSignage(cell), reportPlaceName,
               nameMatchScore(pl.name, reportPlaceName),
               promptMentionsPlace(text, pl.name) > 0, cfg)

ScoreInCell(pl, d, placeH3, cell, text, cfg, cameras) ==
    ScoreWithCell(pl, d, placeH3, CamCount(cameras, placeH3),
                  SumCams(cameras, gridDisk(placeH3, 1)), cell, CellPlaceName(cell),
                  text, cfg)

ScoreInRange(pl, d, placeH3, text, cfg, cameras, reportCells) ==
    IF TooFar(d, cfg) THEN <<>>
    ELSE <<ScoreInCell(pl, d, placeH3, AttributedCell(pl, placeH3, reportCells), text,
                       cfg, cameras)>>

\* scorePlace(pl): <<>> when the place is skipped, else <<the item pushed>>
scorePlace(pl, lat, lon, text, cfg, exclude, cameras, reportCells) ==
    IF pl.kind \in exclude THEN <<>>
    ELSE ScoreInRange(pl, haversineMeters(lat, lon, pl.lat, pl.lon),
                      latLngToCell(pl.lat, pl.lon, CAM_RES), text, cfg, cameras,
                      reportCells)

\* A place row that lacks the field kind is written with this kind. Such a
\* row passes exclude.has(pl.kind) and the range filter like any other, and
\* `pl.kind.replaceAll` then throws a TypeError.
NoKind == "undefined"

ScorePlaceThrows(pl, lat, lon, cfg, exclude) ==
    /\ pl.kind = NoKind
    /\ pl.kind \notin exclude
    /\ ~TooFar(haversineMeters(lat, lon, pl.lat, pl.lon), cfg)

\* the loop over places throws at one of its rows
ScoringThrows(places, lat, lon, cfg, exclude) ==
    \E i \in DOMAIN places : ScorePlaceThrows(places[i], lat, lon, cfg, exclude)

\* for (const pl of places) scorePlace(pl); for (const h of hotspots) scorePlace(h)
RECURSIVE ScoreEach(_, _, _, _, _, _, _, _)
ScoreEach(pls, lat, lon, text, cfg, exclude, cameras, reportCells) ==
    IF pls = <<>> THEN <<>>
    ELSE scorePlace(Head(pls), lat, lon, text, cfg, exclude, cameras, reportCells)
         \o ScoreEach(Tail(pls), lat, lon, text, cfg, exclude, cameras, reportCells)

-----------------------------------------------------------------------------
(* Deduplication, ordering and selection *)

\* the key of dedupeBestByKey: kind|nameKey, or kind|cell at resolution 13
\* when the name normalizes to nothing
DedupeKeyOf(kind, nameKey, cellKey) ==
    IF nameKey # "" THEN <<kind, nameKey, -1>> ELSE <<kind, "", cellKey[2]>>

DedupeKey(it) ==
    DedupeKeyOf(it.place.kind, normalizeText(it.place.name),
                latLngToCell(it.place.lat, it.place.lon, 13))

\* a replacement also on equal scores
BestPutOnEqual(best, at, it, key) ==
    IF at = {} THEN Append(best, [key |-> key, it |-> it])
    ELSE IF it.score >= best[LastOf(at)].it.score
         THEN [best EXCEPT ![LastOf(at)] = [key |-> key, it |-> it]]
         ELSE best

\* best.set(key, it) when the key is new or the item scores strictly higher;
\* a Map keeps the position of the first insertion of a key
BestPut(best, at, it, key) ==
    IF at = {} THEN Append(best, [key |-> key, it |-> it])
    ELSE IF it.score > best[LastOf(at)].it.score
         THEN [best EXCEPT ![LastOf(at)] = [key |-> key, it |-> it]]
         ELSE best

\* a step that takes a key as met before only within 180 m
BestStepNear(best, it, key) ==
    BestPut(best,
            {i \in DOMAIN best :
                /\ best[i].key = key
                /\ haversineMeters(best[i].it.place.lat, best[i].it.place.lon,
                                   it.place.lat, it.place.lon) <= 180 * 1000},
            it, key)

BestStep(best, it, key) == BestPut(best, {i \in DOMAIN best : best[i].key = key}, it, key)

RECURSIVE BestFold(_, _)
BestFold(items, best) ==
    IF items = <<>> THEN best
    ELSE BestFold(Tail(items), BestStep(best, Head(items), DedupeKey(Head(items))))

BestValues(best) == [i \in DOMAIN best |-> best[i].it]

dedupeBestByKey(items) == BestValues(BestFold(items, <<>>))

\* deduped.sort((a, b) => b.score - a.score): stable, highest score first
RECURSIVE InsertByScore(_, _)
InsertByScore(sorted, it) ==
    IF sorted = <<>> THEN <<it>>
    ELSE IF Head(sorted).score >= it.score
         THEN <<Head(sorted)>> \o InsertByScore(Tail(sorted), it)
         ELSE <<it>> \o sorted

RECURSIVE SortByScore(_, _)
SortByScore(items, sorted) ==
    IF items = <<>> THEN sorted
    ELSE SortByScore(Tail(items), InsertByScore(sorted, Head(items)))

IsHotspot(x) == x.place.kind = "community_hotspot"

NotHotspot(x) == x.place.kind # "community_hotspot"

evidenceStrength(x) == x.report_yes * 2 + x.report_signage + Min(6, x.cameras_in_k1)

hasEvidence(x) == evidenceStrength(x) >= 2

Primary(x) == NotHotspot(x) /\ hasEvidence(x)

Secondary(x) == NotHotspot(x) /\ ~hasEvidence(x)

\* a hotspot cap that is only the size of the response
MaxHotspotsUncapped(communityEnabled, maxResults) ==
    IF communityEnabled THEN maxResults ELSE Num(0)

\* communityEnabled ? Math.min(2, Math.ceil(maxResults / 3)) : 0
MaxHotspots(communityEnabled, maxResults) ==
    IF communityEnabled THEN MathMinC(2, CeilDiv3(maxResults)) ELSE Num(0)

HasId(top, id) == \E i \in DOMAIN top : top[i].place.id = id

\* one of the three filling loops
RECURSIVE Fill(_, _, _)
Fill(top, src, limit) ==
    IF src = <<>> THEN top
    ELSE IF GeqJs(Len(top), limit) THEN top
    ELSE IF HasId(top, Head(src).place.id) THEN Fill(top, Tail(src), limit)
    ELSE Fill(Append(top, Head(src)), Tail(src), limit)

\* a selection that fills the ordinary places in the order of their scores
SelectTopByScore(deduped, maxHotspots, maxResults) ==
    Fill(Fill(<<>>, SelectSeq(deduped, IsHotspot), maxHotspots),
         SelectSeq(deduped, NotHotspot), maxResults)

\* top[] after the three loops over hotspotsSorted, primary and secondary
SelectTop(deduped, maxHotspots, maxResults) ==
    Fill(Fill(Fill(<<>>, SelectSeq(deduped, IsHotspot), maxHotspots),
              SelectSeq(deduped, Primary), maxResults),
         SelectSeq(deduped, Secondary), maxResults)

\* normalizeNameForKey(it.place.name || it.report_place_name)
PresentationKey(it) ==
    normalizeNameForKey(IF it.place.name # "" THEN it.place.name ELSE it.report_place_name)

\* a presentation dedupe that compares only items of the same kind
IsDupSameKind(out, it, nameKey, maxMeters) ==
    \E i \in DOMAIN out :
        /\ nameKey # ""
        /\ out[i].place.kind = it.place.kind
        /\ PresentationKey(out[i]) = nameKey
        /\ haversineMeters(out[i].place.lat, out[i].place.lon, it.place.lat, it.place.lon)
              <= maxMeters * 1000

\* out.some(...): an earlier kept item with the same non-empty key within maxMeters
IsDup(out, it, nameKey, maxMeters) ==
    \E i \in DOMAIN out :
        /\ nameKey # ""
        /\ PresentationKey(out[i]) = nameKey
        /\ haversineMeters(out[i].place.lat, out[i].place.lon, it.place.lat, it.place.lon)
              <= maxMeters * 1000

DedupeStep(out, it, maxMeters) ==
    IF IsDup(out, it, PresentationKey(it), maxMeters) THEN out ELSE Append(out, it)

RECURSIVE DedupeNear(_, _, _)
DedupeNear(items, out, maxMeters) ==
    IF items = <<>> THEN out
    ELSE DedupeNear(Tail(items), DedupeStep(out, Head(items), maxMeters), maxMeters)

dedupeByNameAndDistance(items, maxMeters) == DedupeNear(items, <<>>, maxMeters)

-----------------------------------------------------------------------------
(* aiRerankResults *)

\* What the rerank collaborator does with one call. kind is "ok" (a text
\* that parses to JSON with the given order and reasons; order is <<>> when
\* the JSON has no order array), "garbage" (an empty or unparseable text),
\* "reject" (the promise rejects) or "timeout" (nothing within timeoutMs).
\* reasons is a sequence of <<id, text>> pairs.
RerankAnswer(kind, order, reasons) == [kind |-> kind, order |-> order, reasons |-> reasons]

NoReasons == <<>>

\* aiJson after the try/catch: <<>> stands for null
AiJson(answer) == IF answer.kind = "ok" THEN <<answer>> ELSE <<>>

OrderOf(aiJson) == IF aiJson = <<>> THEN <<>> ELSE aiJson[1].order

ReasonsOf(aiJson) == IF aiJson = <<>> THEN NoReasons ELSE aiJson[1].reasons

\* byId.get(id): <<>> when the id is unknown
ByIdAt(items, idx) == IF idx = {} THEN <<>> ELSE <<items[LastOf(idx)]>>

ById(items, id) == ByIdAt(items, {i \in DOMAIN items : items[i].place.id = id})

\* reasons[id], "" when absent
ReasonAt(reasons, idx) == IF idx = {} THEN "" ELSE reasons[LastOf(idx)][2]

ReasonFor(reasons, id) == ReasonAt(reasons, {i \in DOMAIN reasons : reasons[i][1] = id})

\* it.reasons = [r.trim().slice(0, 90), ...it.reasons] when r.trim() is not empty
WithReason(it, r) ==
    IF r = "" THEN it ELSE [it EXCEPT !.reasons = <<Slice0(r, 90)>> \o @]

\* a loop over order that does not remember the ids it has used
RerankStepRepeating(ordered, found, id, reasons) ==
    IF found = <<>> THEN ordered
    ELSE Append(ordered, WithReason(found[1], Trim(ReasonFor(reasons, id))))

\* one turn of the loop over order
RerankStep(ordered, found, id, reasons) ==
    IF found = <<>> \/ HasId(ordered, id) THEN ordered
    ELSE Append(ordered, WithReason(found[1], Trim(ReasonFor(reasons, id))))

\* a loop that walks the order from its last entry to its first
RECURSIVE RerankLoopFromEnd(_, _, _, _)
RerankLoopFromEnd(items, order, reasons, ordered) ==
    IF order = <<>> THEN ordered
    ELSE RerankLoopFromEnd(items, SubSeq(order, 1, Len(order) - 1), reasons,
                           RerankStep(ordered, ById(items, order[Len(order)]),
                                      order[Len(order)], reasons))

RECURSIVE RerankLoop(_, _, _, _)
RerankLoop(items, order, reasons, ordered) ==
    IF order = <<>> THEN ordered
    ELSE RerankLoop(items, Tail(order), reasons,
                    RerankStep(ordered, ById(items, Head(order)), Head(order), reasons))

IdsOf(items) == [i \in DOMAIN items |-> items[i].place.id]

\* the loop that appends the items whose id the order loop did not use
RECURSIVE AppendRest(_, _, _)
AppendRest(items, used, ordered) ==
    IF items = <<>> THEN ordered
    ELSE AppendRest(Tail(items), used,
                    IF Head(items).place.id \in used THEN ordered
                    ELSE Append(ordered, Head(items)))

RerankResult(ordered) == [ordered |-> ordered, aiUsed |-> Len(ordered) > 0, called |-> TRUE]

\* a second loop that walks the items from the last to the first
RerankRestReversed(items, ordered) ==
    RerankResult(AppendRest(Reverse(items), Range(IdsOf(ordered)), ordered))

RerankRest(items, ordered) ==
    RerankResult(AppendRest(items, Range(IdsOf(ordered)), ordered))

RerankWith(items, aiJson) ==
    RerankRest(items, RerankLoop(items, OrderOf(aiJson), ReasonsOf(aiJson), <<>>))

\* aiRerankResults(opts): called tells whether generateContent was invoked
aiRerankResults(items, answer) ==
    IF Len(items) <= 1 THEN [ordered |-> items, aiUsed |-> FALSE, called |-> FALSE]
    ELSE RerankWith(items, AiJson(answer))

-----------------------------------------------------------------------------
(* POST: values computed before the fetches *)

Reqs == {"r1", "r2"}

FetchTimeoutMs == 12000

RerankTimeoutMs == 6000

TtlMs == 60 * 1000

\* A request body: [parsed |-> FALSE] when req.json() throws, else the
\* JSON values of its fields
Unparsed == [parsed |-> FALSE]

\* body?.f
Field(body, f) == IF body.parsed THEN body[f] ELSE Undef

\* new Set(body?.excludeKinds || [])
ExcludeOf(body) == IF body.parsed THEN Range(body.excludeKinds) ELSE {}

\* String(body?.text || "").slice(0, 800)
TextOf(body) == IF body.parsed THEN Slice0(body.text, 800) ELSE ""

\* Math.max(1, Math.min(30, Number(body?.maxResults || 5)))
ClampMaxResults(j) == MathMaxC(1, MathMinC(30, ToNumber(IF Truthy(j) THEN j ELSE JNum(5))))

\* x.toFixed(4) of a coordinate in 1e-5 degree, as sign and rounded magnitude
toFixed4(x) == [neg |-> x < 0, n |-> (Abs(x) + 5) \div 10]

\* a key that hashes the text as it was sent
CacheKeyRawText(intent, lat, lon, maxResults, text, exclude) ==
    <<intent, toFixed4(lat), toFixed4(lon), maxResults,
      quickHashBase36(Slice0(text, 260)),
      Join(SortStrings(exclude), "|")>>

\* the fields of cacheKey, in order
CacheKey(intent, lat, lon, maxResults, text, exclude) ==
    <<intent, toFixed4(lat), toFixed4(lon), maxResults,
      quickHashBase36(Slice0(normalizeText(text), 260)),
      Join(SortStrings(exclude), "|")>>

\* a freshness test that takes the TTL for 60 ms
CacheFreshShort(cache, key, now) == key \in DOMAIN cache /\ now - cache[key].at < 60

\* hit && now - hit.at < ttlMs
CacheFresh(cache, key, now) == key \in DOMAIN cache /\ now - cache[key].at < TtlMs

\* cfg.kindsQuery.filter((k) => !exclude.has(k))
AllowedKinds(cfg, exclude) == SelectSeq(cfg.kindsQuery, LAMBDA k : k \notin exclude)

\* What one source fetch comes to: "ok" (a JSON body holding the array),
\* "reject" (fetch rejects), "badjson" (r.json() rejects), "noarray" (a JSON
\* body without the array), "abort" (cut by the shared timeout), "none" (no
\* fetch made). Rows of an "ok" array are well formed.
Ok(data) == [kind |-> "ok", data |-> data]

Failed(kind) == [kind |-> kind, data |-> <<>>]

\* Array.isArray(j?.x) ? j.x : []
SourceData(out) == IF out.kind = "ok" THEN out.data ELSE <<>>

NoCalls == [places |-> 0, cameras |-> 0, report |-> 0, rerank |-> 0]

\* One invocation of POST: where it stands, what it has computed, and a
\* record of what it has done (calls, lookups, writes, seen, threw, served).
\* pool is deduped[] after the sort, top the selection before the rerank.
IdleReq ==
    [pc |-> "idle", body |-> Unparsed, lat |-> 0, lon |-> 0, text |-> "",
     maxResults |-> Num(0), exclude |-> {}, intent |-> "", cacheKey |-> <<>>,
     now |-> 0, rrStart |-> 0, src |-> <<>>, pool |-> <<>>, top |-> <<>>, meta |-> <<>>,
     answer |-> "", calls |-> NoCalls, lookups |-> 0, writes |-> 0, seen |-> <<>>,
     threw |-> "", served |-> "", status |-> 0, resp |-> <<>>]

\* return NextResponse.json(resp, { status })
Respond(q, served, status, resp) ==
    [q EXCEPT !.pc = "done", !.served = served, !.status = status, !.resp = resp]

\* memCache.set(key, { at: now, data: payload })
CacheSet(cache, key, now, payload) == (key :> [at |-> now, data |-> payload]) @@ cache

\* the time at which the entry of a key was put into the map
HistSet(h, key, t) == [h EXCEPT !.insertedAt = (key :> t) @@ @]

\* memCache.get(cacheKey) together with the time it was put there
Seen(cache, h, key) ==
    IF key \in DOMAIN cache
    THEN <<[at |-> cache[key].at, insertedAt |-> h.insertedAt[key], data |-> cache[key].data]>>
    ELSE <<>>

-----------------------------------------------------------------------------
(* POST: from the arrival of a request to the start of the fetches *)

Started(h) == [h EXCEPT !.started = @ + 1]

\* getGemini() throws: the handler rejects before its first try block and
\* the framework answers 500
Crash(r, body) ==
    /\ req' = [req EXCEPT ![r] = Respond([IdleReq EXCEPT !.body = body], "crash", 500,
                                         [error |-> "GEMINI_API_KEY is missing"])]
    /\ hist' = Started(hist)
    /\ UNCHANGED <<apiKey, memCache, clock, fn>>

\* return NextResponse.json({ error: "bad_lat_lon" }, { status: 400 })
BadLatLon(r, body) ==
    /\ req' = [req EXCEPT ![r] = Respond([IdleReq EXCEPT !.body = body], "bad_request", 400,
                                         [error |-> "bad_lat_lon"])]
    /\ hist' = Started(hist)
    /\ UNCHANGED <<apiKey, memCache, clock, fn>>

\* the request once cacheKey and now are known
Keyed(body, lat, lon, text, maxResults, exclude, intent, key) ==
    [IdleReq EXCEPT !.body = body, !.lat = lat, !.lon = lon, !.text = text,
                    !.maxResults = maxResults, !.exclude = exclude, !.intent = intent,
                    !.cacheKey = key, !.now = clock, !.lookups = 1,
                    !.seen = Seen(memCache, hist, key)]

\* the three fetches are started; places only when some kind is allowed
Fetching(q, allowedKinds) ==
    [q EXCEPT !.pc = "fetching",
              !.calls = [places |-> IF allowedKinds = <<>> THEN 0 ELSE 1,
                         cameras |-> 1, report |-> 1, rerank |-> 0]]

\* the cache lookup: replay of a fresh entry, else the fan-out
Lookup(r, q, key) ==
    /\ req' = [req EXCEPT ![r] =
                  IF CacheFresh(memCache, key, clock)
                  THEN Respond(q, "hit", 200, memCache[key].data)
                  ELSE Fetching(q, AllowedKinds(intentConfig(q.intent), q.exclude))]
    /\ hist' = Started(hist)
    /\ UNCHANGED <<apiKey, memCache, clock, fn>>

WithKey(r, body, lat, lon, text, maxResults, exclude, intent, key) ==
    Lookup(r, Keyed(body, lat, lon, text, maxResults, exclude, intent, key), key)

WithIntent(r, body, lat, lon, text, maxResults, exclude, intent) ==
    WithKey(r, body, lat, lon, text, maxResults, exclude, intent,
            CacheKey(intent, lat, lon, maxResults, text, exclude))

Validated(r, body, lat, lon, text, maxResults, exclude) ==
    IF ~isFinite(lat) \/ ~isFinite(lon) THEN BadLatLon(r, body)
    ELSE WithIntent(r, body, lat.v, lon.v, text, maxResults, exclude, classifyIntent(text))

\* POST up to its first await of a collaborator
Start(r, body) ==
    IF ~apiKey THEN Crash(r, body)
    ELSE Validated(r, body, ToNumber(Field(body, "lat")), ToNumber(Field(body, "lon")),
                   TextOf(body), ClampMaxResults(Field(body, "maxResults")),
                   ExcludeOf(body))

-----------------------------------------------------------------------------
(* POST: from the answers of the sources to the response *)

HotspotsOnlyNote(communityEnabled) ==
    IF communityEnabled
    THEN "Community-only mode: showing community hotspot candidates."
    ELSE "All place kinds excluded and community disabled, returning no results."

NormalNote ==
    "Recommendations prioritize community reports first, then distance, then camera markers. Place type has only a small influence so one nearby new place will not automatically kick out another."

\* the payload without bbox and meta.cacheKeyHint, which repeat the request
Payload(q, cfg, results, meta, note) ==
    [intent |-> q.intent, intentLabel |-> cfg.label, results |-> results,
     meta |-> meta, note |-> note]

\* a write that leaves an entry already stored under the key as it is
StoreIfAbsent(r, q, payload, served) ==
    /\ req' = [req EXCEPT ![r] = Respond([q EXCEPT !.writes = @ + 1], served, 200, payload)]
    /\ memCache' = IF q.cacheKey \in DOMAIN memCache THEN memCache
                   ELSE CacheSet(memCache, q.cacheKey, q.now, payload)
    /\ hist' = HistSet(hist, q.cacheKey, clock)
    /\ UNCHANGED <<apiKey, clock, fn>>

\* memCache.set(cacheKey, { at: now, data: payload }); return the payload
Store(r, q, payload, served) ==
    /\ req' = [req EXCEPT ![r] = Respond([q EXCEPT !.writes = @ + 1], served, 200, payload)]
    /\ memCache' = CacheSet(memCache, q.cacheKey, q.now, payload)
    /\ hist' = HistSet(hist, q.cacheKey, clock)
    /\ UNCHANGED <<apiKey, clock, fn>>

\* the branch taken when every kind of the intent is excluded
HotspotsOnly(r, q, cfg, deduped, meta) ==
    Store(r, q,
          Payload(q, cfg,
                  SliceJs(IF meta.communityEnabled THEN SelectSeq(deduped, IsHotspot)
                          ELSE <<>>, q.maxResults),
                  meta, HotspotsOnlyNote(meta.communityEnabled)),
          "hotspots_only")

NormalMeta(meta, maxHotspots, aiRerankUsed) ==
    [placesFetched |-> meta.placesFetched, camerasFetched |-> meta.camerasFetched,
     reportCellsFetched |-> meta.reportCellsFetched,
     hotspotCandidates |-> meta.hotspotCandidates, allowedKinds |-> meta.allowedKinds,
     communityEnabled |-> meta.communityEnabled, maxHotspots |-> maxHotspots,
     aiRerankUsed |-> aiRerankUsed]

\* lines 818-847: the reranked list is cut, deduplicated for presentation,
\* cut again, stored and returned
Finish(r, q, rr) ==
    Store(r, q,
          Payload(q, intentConfig(q.intent),
                  SliceJs(dedupeByNameAndDistance(SliceJs(rr.ordered, q.maxResults), 180),
                          q.maxResults),
                  NormalMeta(q.meta, MaxHotspots(q.meta.communityEnabled, q.maxResults),
                             rr.aiUsed),
                  NormalNote),
          "normal")

\* finalTop = top.slice(0, maxResults), then the call of aiRerankResults,
\* which returns at once for at most one item
Selected(r, q, finalTop) ==
    IF Len(finalTop) <= 1
    THEN Finish(r, [q EXCEPT !.top = finalTop], aiRerankResults(finalTop, RerankAnswer("", <<>>, NoReasons)))
    ELSE /\ req' = [req EXCEPT ![r] = [q EXCEPT !.pc = "reranking", !.top = finalTop,
                                                !.rrStart = clock, !.calls.rerank = @ + 1]]
         /\ UNCHANGED <<apiKey, memCache, clock, hist, fn>>

Branch(r, q, cfg, deduped, meta) ==
    IF meta.allowedKinds = <<>> THEN HotspotsOnly(r, q, cfg, deduped, meta)
    ELSE Selected(r, [q EXCEPT !.meta = meta, !.pool = deduped],
                  SliceJs(SelectTop(deduped, MaxHotspots(meta.communityEnabled, q.maxResults),
                                    q.maxResults),
                          q.maxResults))

Meta(places, cameras, reportCells, hotspots, allowedKinds, communityEnabled) ==
    [placesFetched |-> Len(places), camerasFetched |-> Len(cameras),
     reportCellsFetched |-> Len(reportCells), hotspotCandidates |-> Len(hotspots),
     allowedKinds |-> allowedKinds, communityEnabled |-> communityEnabled]

\* scored[], then deduped sorted
Deduped(q, cfg, places, cameras, reportCells, hotspots) ==
    SortByScore(dedupeBestByKey(
                    ScoreEach(places, q.lat, q.lon, q.text, cfg, q.exclude, cameras,
                              reportCells)
                    \o ScoreEach(hotspots, q.lat, q.lon, q.text, cfg, q.exclude, cameras,
                                 reportCells)),
                <<>>)

WithHotspots(r, q, cfg, places, cameras, reportCells, communityEnabled, hotspots) ==
    Branch(r, q, cfg, Deduped(q, cfg, places, cameras, reportCells, hotspots),
           Meta(places, cameras, reportCells, hotspots, AllowedKinds(cfg, q.exclude),
                communityEnabled))

Computed(r, q, cfg, places, cameras, reportCells, communityEnabled) ==
    WithHotspots(r, q, cfg, places, cameras, reportCells, communityEnabled,
                 BuildHotspots(reportCells, communityEnabled, q.lat, q.lon, cfg))

\* a fan-out without the per-source catch: one failing source rejects
\* Promise.all, and the handler answers with the error body of its catch
FetchDoneAllOrNothing(r, pOut, cOut, rOut) ==
    IF {pOut.kind, cOut.kind, rOut.kind} \subseteq {"ok", "none"}
    THEN Computed(r, [req[r] EXCEPT !.src = <<pOut.kind, cOut.kind, rOut.kind>>],
                  intentConfig(req[r].intent), SourceData(pOut), SourceData(cOut),
                  SourceData(rOut), "community_hotspot" \notin req[r].exclude)
    ELSE /\ req' = [req EXCEPT ![r] =
                       Respond([req[r] EXCEPT !.src = <<pOut.kind, cOut.kind, rOut.kind>>],
                               "error", 200,
                               [error |-> "fetch failed", intent |-> req[r].intent])]
         /\ UNCHANGED <<apiKey, memCache, clock, hist, fn>>

\* the body of the outer catch, one that first stored under the cache key
CaughtStoring(r, q, message) ==
    /\ req' = [req EXCEPT ![r] =
                  Respond([q EXCEPT !.threw = "scoring", !.writes = @ + 1], "error", 200,
                          [error |-> message, intent |-> q.intent])]
    /\ memCache' = CacheSet(memCache, q.cacheKey, q.now,
                            [error |-> message, intent |-> q.intent])
    /\ hist' = HistSet(hist, q.cacheKey, clock)
    /\ UNCHANGED <<apiKey, clock, fn>>

\* catch (e) { return NextResponse.json({ error: String(e?.message || e), intent },
\* { status: 200 }) } for an exception thrown between the fetches and the
\* rerank
Caught(r, q, message) ==
    /\ req' = [req EXCEPT ![r] =
                  Respond([q EXCEPT !.threw = "scoring"], "error", 200,
                          [error |-> message, intent |-> q.intent])]
    /\ UNCHANGED <<apiKey, memCache, clock, hist, fn>>

\* the body of the try block after Promise.all, with what the sources gave
AfterFetch(r, q, cfg, places, cameras, reportCells) ==
    IF ScoringThrows(places, q.lat, q.lon, cfg, q.exclude)
    THEN Caught(r, q, "Cannot read properties of undefined (reading 'replaceAll')")
    ELSE Computed(r, q, cfg, places, cameras, reportCells,
                  "community_hotspot" \notin q.exclude)

\* the continuation of POST after Promise.all
FetchDone(r, pOut, cOut, rOut) ==
    AfterFetch(r, [req[r] EXCEPT !.src = <<pOut.kind, cOut.kind, rOut.kind>>],
               intentConfig(req[r].intent), SourceData(pOut), SourceData(cOut),
               SourceData(rOut))

\* a continuation that calls the collaborator a second time when the first
\* call came to nothing
RerankDoneRetrying(r, answer) ==
    IF answer.kind # "ok" /\ req[r].calls.rerank < 2
    THEN /\ req' = [req EXCEPT ![r].calls.rerank = @ + 1, ![r].rrStart = clock]
         /\ UNCHANGED <<apiKey, memCache, clock, hist, fn>>
    ELSE Finish(r, [req[r] EXCEPT !.answer = answer.kind],
                aiRerankResults(req[r].top, answer))

\* the continuation of POST after aiRerankResults
RerankDone(r, answer) ==
    Finish(r, [req[r] EXCEPT !.answer = answer.kind], aiRerankResults(req[r].top, answer))

-----------------------------------------------------------------------------
(* Time *)

\* the step of the clock: the shorter of the two timeouts
TickMs == RerankTimeoutMs

\* setTimeout(() => controller.abort(), 12000) and the timeout of the rerank
\* race: a pending fetch or rerank call is over when its timer fires
Due(q, t) ==
    /\ q.pc = "fetching" => t <= q.now + FetchTimeoutMs
    /\ q.pc = "reranking" => t <= q.rrStart + RerankTimeoutMs

\* time is counted from the arrival of the first request
Tick(maxClock) ==
    /\ hist.started > 0
    /\ clock + TickMs <= maxClock
    /\ \A r \in Reqs : Due(req[r], clock + TickMs)
    /\ clock' = clock + TickMs
    /\ UNCHANGED <<apiKey, memCache, req, hist, fn>>

\* a fetch is aborted only by the timer; a rerank call times out only then
MayAbort(q, out) == out.kind = "abort" => clock - q.now >= FetchTimeoutMs

MayTimeOut(q, answer) == answer.kind = "timeout" <=> clock - q.rrStart >= RerankTimeoutMs

-----------------------------------------------------------------------------
(* The environment: requests, source data and rerank answers *)

Body(lat, lon, text, maxResults, excludeKinds) ==
    [parsed |-> TRUE, lat |-> lat, lon |-> lon, text |-> text,
     maxResults |-> maxResults, excludeKinds |-> excludeKinds]

Pl(id, kind, name, lat) == [id |-> id, kind |-> kind, name |-> name, lat |-> lat, lon |-> 0]

Cam(lat) == [lat |-> lat, lon |-> 0]

Row(idx, yes, no, signage, name) ==
    [h3_index |-> <<CAM_RES, idx>>, camera_present_count |-> yes,
     camera_absent_count |-> no, signage_count |-> signage, place_name |-> name]

\* the kinds queried for the default intent
OrdinaryKinds ==
    <<"police", "mall", "cafe", "park", "library", "community_centre", "parking", "mcd">>

\* two places of different kinds whose names normalize alike, 56 m apart,
\* and two unnamed parks 22 m apart
PlacesA ==
    <<Pl("p1", "cafe", "Joe's", 10100), Pl("p2", "library", "JOES", 10150),
      Pl("p3", "park", "", 10300), Pl("p4", "park", "", 10320)>>

\* a place on the edge of the range of the default intent, one far beyond it
PlacesB ==
    <<Pl("p5", "police", "HQ", 4810), Pl("p6", "mall", "Far Mall", 17500),
      Pl("p1", "cafe", "Joe's", 10100)>>

\* places whose names normalize alike, more and less than 180 m apart
PlacesC ==
    <<Pl("p7", "cafe", "Joe's", 10400), Pl("p1", "cafe", "Joe's", 10100),
      Pl("p8", "mall", "joes", 10500), Pl("p2", "library", "JOES", 10150)>>

\* a row without a kind within range, and one beyond it
PlacesBad == <<Pl("p1", "cafe", "Joe's", 10100), Pl("p9", NoKind, "Kiosk", 10050)>>

PlacesBadFar == <<Pl("p1", "cafe", "Joe's", 10100), Pl("p9", NoKind, "Kiosk", 17500)>>

\* a police station and a mall some 300 m away without cameras or reports
\* around them, and a park in a cell with cameras
PlacesD ==
    <<Pl("p10", "police", "Station", 9800), Pl("p11", "park", "Green", 10250),
      Pl("p12", "mall", "Plaza", 9700)>>

CamerasA == <<Cam(10100), Cam(10110), Cam(10130), Cam(10310)>>

\* report cells of four parent cells in range and of one out of range
CellsA ==
    <<Row(84, 6, 0, 1, "Joes"), Row(85, 2, 0, 0, ""), Row(90, 3, 1, 0, ""),
      Row(95, 5, 0, 0, ""), Row(100, 2, 0, 0, "Mall"), Row(150, 4, 0, 0, "")>>

CellsB == <<Row(85, 1, 2, 0, "Joes Cafe")>>

\* answers of the rerank collaborator to a call with the given ids: none in
\* time, a rejection, an unparseable text, JSON without an order, the ids
\* reversed with a reason, an order with an unknown and a repeated id
AnswersTo(ids, rev) ==
    {RerankAnswer("timeout", <<>>, NoReasons),
     RerankAnswer("reject", <<>>, NoReasons),
     RerankAnswer("garbage", <<>>, NoReasons),
     RerankAnswer("ok", <<>>, NoReasons),
     RerankAnswer("ok", rev, <<<<rev[1], "  closest with cameras ">>>>),
     RerankAnswer("ok", <<rev[1], "bogus", rev[1], ids[1]>>, <<<<"bogus", "x">>, <<ids[1], " ">>>>)}

Answers(items) == AnswersTo(IdsOf(items), Reverse(IdsOf(items)))

-----------------------------------------------------------------------------
(* The route under concurrent requests: Spec *)

MaxRequests == 2

MaxClock == 66000

\* two requests 4.4 m apart that share a cache key, one that excludes
\* every kind of its intent, one with null coordinates, and requests
\* without usable coordinates
Bodies ==
    {Body(JNum(10000), JNum(0), "", Undef, <<>>),
     Body(JNum(10004), JNum(0), "", Undef, <<>>),
     Body(JNum(10000), JNum(0), "", Undef, OrdinaryKinds),
     Body(JNull, JNull, "", Undef, <<>>),
     Body(Undef, JNum(0), "", Undef, <<>>),
     Body(JNum(10000), JStr("abc"), "", Undef, <<>>),
     Unparsed}

PlaceAnswers == {Ok(PlacesB), Ok(PlacesBad)}

CameraAnswers == {Ok(CamerasA)}

ReportAnswers == {Ok(CellsA), Failed("abort")}

\* the answers of the rerank collaborator in Spec: none in time, or the ids
\* reversed
FewAnswers(items) ==
    {RerankAnswer("timeout", <<>>, NoReasons),
     RerankAnswer("ok", Reverse(IdsOf(items)), NoReasons)}

Init ==
    /\ apiKey \in BOOLEAN
    /\ memCache = <<>>
    /\ clock = 0
    /\ req = [r \in Reqs |-> IdleReq]
    /\ hist = [insertedAt |-> <<>>, started |-> 0]
    /\ fn = <<>>

\* a request arrives; the second slot is taken only when the first is in use
ArriveIn(r, bodies, maxRequests) ==
    /\ req[r].pc \in {"idle", "done"}
    /\ hist.started < maxRequests
    /\ r = "r2" => req["r1"].pc # "idle"
    /\ \E body \in bodies : Start(r, body)

\* Promise.all settles
FetchedWith(r, P, C, R) ==
    /\ req[r].pc = "fetching"
    /\ \E pOut \in (IF req[r].calls.places = 0 THEN {Failed("none")} ELSE P), cOut \in C,
          rOut \in R :
          /\ MayAbort(req[r], pOut) /\ MayAbort(req[r], cOut) /\ MayAbort(req[r], rOut)
          /\ FetchDone(r, pOut, cOut, rOut)

\* the race of aiRerankResults settles
RerankedIn(r, wide) ==
    /\ req[r].pc = "reranking"
    /\ \E answer \in (IF wide THEN Answers(req[r].top) ELSE FewAnswers(req[r].top)) :
          /\ MayTimeOut(req[r], answer)
          /\ RerankDone(r, answer)

Arrive == \E r \in Reqs : ArriveIn(r, Bodies, MaxRequests)

Fetched == \E r \in Reqs : FetchedWith(r, PlaceAnswers, CameraAnswers, ReportAnswers)

Reranked == \E r \in Reqs : RerankedIn(r, FALSE)

Elapse == Tick(MaxClock)

Next == Arrive \/ Fetched \/ Reranked \/ Elapse

Spec == Init /\ [][Next]_vars

-----------------------------------------------------------------------------
(* One request over many inputs: SpecPipeline *)

AllKinds == OrdinaryKinds \o <<"community_hotspot">>

\* requests of the default intent with every shape of exclusion set, sizes
\* within, below and above the range and a size that is no number, and one
\* request of the night intent that names a place
PipelineBodies ==
    {Body(JNum(10000), JNum(0), "", Undef, <<>>),
     Body(JNum(10000), JNum(0), "", Undef, OrdinaryKinds),
     Body(JNum(10000), JNum(0), "", Undef, AllKinds),
     Body(JNum(10000), JNum(0), "", Undef, <<"community_hotspot">>),
     Body(JNum(10000), JNum(0), "", JNum(2), <<>>),
     Body(JNum(10000), JNum(0), "", JNum(1), <<>>),
     Body(JNum(10000), JNum(0), "", JNum(100), <<>>),
     Body(JNum(10000), JNum(0), "", JNum(-4), <<>>),
     Body(JNum(10000), JNum(0), "", JStr("abc"), <<>>),
     Body(JNum(10000), JNum(0), "", JStr("abc"), OrdinaryKinds),
     Body(JNum(10000), JNum(0), "Late JOES", JStr("3"), <<"park">>)}

FailureKinds == {"reject", "badjson", "noarray", "abort"}

Failures == {Failed(k) : k \in FailureKinds}

Pending == \E r \in Reqs : req[r].pc \in {"fetching", "reranking"}

ArriveOne == ArriveIn("r1", PipelineBodies, 1)

\* the sources answer with one of several data sets, or each of them either
\* answers or fails in one of the four ways
FetchedOne ==
    \/ FetchedWith("r1", {Ok(PlacesA), Ok(PlacesB), Ok(PlacesC), Ok(PlacesD), Ok(PlacesBadFar)},
                   {Ok(CamerasA)},
                   {Ok(CellsA), Ok(CellsB)})
    \/ FetchedWith("r1", {Ok(PlacesA)} \cup Failures, {Ok(CamerasA)} \cup Failures,
                   {Ok(CellsA)} \cup Failures)

RerankedOne == RerankedIn("r1", TRUE)

ElapseOne == Pending /\ Tick(MaxClock)

NextPipeline == ArriveOne \/ FetchedOne \/ RerankedOne \/ ElapseOne

SpecPipeline == Init /\ [][NextPipeline]_vars

-----------------------------------------------------------------------------
(* aiRerankResults on its own: SpecRerank *)

MaxItems == 3

MaxOrder == 3

SeqsUpTo(S, n) == UNION {[1..k -> S] : k \in 0..n}

\* an item as far as aiRerankResults reads it
Item(id) == [place |-> [id |-> id], reasons |-> <<"Type: cafe">>]

\* lists of items with distinct ids, as the selection loops produce them
ItemLists ==
    {[i \in DOMAIN ids |-> Item(ids[i])] :
        ids \in {s \in SeqsUpTo({"a", "b", "c"}, MaxItems) :
                    \A i, j \in DOMAIN s : i # j => s[i] # s[j]}}

\* every order over the ids and an unknown one, with and without reasons,
\* and the three ways of getting no answer
RerankAnswers ==
    {RerankAnswer("ok", order, reasons) :
        order \in SeqsUpTo({"a", "b", "c", "zz"}, MaxOrder),
        reasons \in {NoReasons, <<<<"a", " nearest ">>, <<"zz", "x">>>>}}
    \cup {RerankAnswer(k, <<>>, NoReasons) : k \in {"garbage", "reject", "timeout"}}

InitRerank ==
    /\ apiKey = TRUE
    /\ memCache = <<>>
    /\ clock = 0
    /\ req = [r \in Reqs |-> IdleReq]
    /\ hist = [insertedAt |-> <<>>, started |-> 0]
    /\ \E items \in ItemLists : fn = [stage |-> "input", items |-> items]

Rerank ==
    /\ fn.stage = "input"
    /\ \E answer \in RerankAnswers :
          fn' = [stage |-> "output", items |-> fn.items, answer |-> answer,
                 out |-> aiRerankResults(fn.items, answer)]
    /\ UNCHANGED <<apiKey, memCache, clock, req, hist>>

NextRerank == Rerank

SpecRerank == InitRerank /\ [][NextRerank]_vars

-----------------------------------------------------------------------------
(* classifyIntent on its own: SpecClassify *)

MaxWords == 2

\* words that hold a keyword of each group, in capitals, inside a longer
\* word, across an apostrophe or a hyphen, and words that hold none
Words ==
    {"SELL", "cashew", "Buyer", "update", "Tinder", "first-time", "night", "plate",
     "Park'ing", "coffee", "first", ""}

\* the requests' texts: up to MaxWords words with a blank between them
Texts == {Join(ws, " ") : ws \in SeqsUpTo(Words, MaxWords)}

InitClassify ==
    /\ apiKey = TRUE
    /\ memCache = <<>>
    /\ clock = 0
    /\ req = [r \in Reqs |-> IdleReq]
    /\ hist = [insertedAt |-> <<>>, started |-> 0]
    /\ \E text \in Texts : fn = [stage |-> "input", text |-> text]

Classify ==
    /\ fn.stage = "input"
    /\ fn' = [stage |-> "output", text |-> fn.text, intent |-> classifyIntent(fn.text),
              again |-> classifyIntent(fn.text)]
    /\ UNCHANGED <<apiKey, memCache, clock, req, hist>>

NextClassify == Classify

SpecClassify == InitClassify /\ [][NextClassify]_vars

-----------------------------------------------------------------------------
(* The hotspot build on its own: SpecHotspots *)

MaxCells == 3

\* report rows of four neighbouring cells, of which three share a parent, and
\* of a cell out of range, with one to three confirmations
ReportRows ==
    {Row(idx, yes, 0, 0, "") : idx \in {84, 85, 86, 87, 150}, yes \in 1..3}

InitHotspots ==
    /\ apiKey = TRUE
    /\ memCache = <<>>
    /\ clock = 0
    /\ req = [r \in Reqs |-> IdleReq]
    /\ hist = [insertedAt |-> <<>>, started |-> 0]
    /\ \E cells \in SeqsUpTo(ReportRows, MaxCells) : fn = [stage |-> "input", cells |-> cells]

\* lines 538-587 for a request at latitude 0.1 with the default intent
Build ==
    /\ fn.stage = "input"
    /\ \E enabled \in BOOLEAN :
          fn' = [stage |-> "output", cells |-> fn.cells, enabled |-> enabled,
                 lat |-> 10000, lon |-> 0,
                 out |-> BuildHotspots(fn.cells, enabled, 10000, 0, intentConfig(""))]
    /\ UNCHANGED <<apiKey, memCache, clock, req, hist>>

NextHotspots == Build

SpecHotspots == InitHotspots /\ [][NextHotspots]_vars

-----------------------------------------------------------------------------
(* scorePlace on its own: SpecScore *)

MaxScoreCells == 2

MaxCount == 7

\* a cafe in cell 85 under three names
ScorePlaces ==
    {Pl("p1", "cafe", n, 10230) : n \in {"Joe's", "Joe's Bar", ""}}

\* rows of the cafe's cell, of the two cells of its ring and of a cell beyond
\* it, with totals 6, 3, 3 and 1, named alike, half alike, alike in a
\* substring only, or not named
ScoreRows ==
    {Row(idx, c[1], c[2], c[3], n) :
        idx \in {84, 85, 86, 88},
        c \in {<<6, 0, 0>>, <<1, 2, 0>>, <<2, 0, 1>>, <<0, 0, 1>>},
        n \in {"", "Joes", "Joes Cafe", "Joescafe"}}

\* up to MaxScoreCells of these rows, or one row of the cafe's cell with
\* every pair of counts up to MaxCount
ScoreCells ==
    SeqsUpTo(ScoreRows, MaxScoreCells)
    \cup {<<Row(85, y, n, 0, "")>> : y \in 0..MaxCount, n \in 0..MaxCount}

InitScore ==
    /\ apiKey = TRUE
    /\ memCache = <<>>
    /\ clock = 0
    /\ req = [r \in Reqs |-> IdleReq]
    /\ hist = [insertedAt |-> <<>>, started |-> 0]
    /\ \E pl \in ScorePlaces, cells \in ScoreCells :
          fn = [stage |-> "input", pl |-> pl, cells |-> cells]

\* scorePlace(pl) for a request at latitude 0.1 with the default intent, no
\* text and no cameras
Score ==
    /\ fn.stage = "input"
    /\ fn' = [stage |-> "output", pl |-> fn.pl, cells |-> fn.cells,
              out |-> scorePlace(fn.pl, 10000, 0, "", intentConfig(""), {}, <<>>, fn.cells)]
    /\ UNCHANGED <<apiKey, memCache, clock, req, hist>>

NextScore == Score

SpecScore == InitScore /\ [][NextScore]_vars

-----------------------------------------------------------------------------
(* From the fetched rows to the deduplicated candidates: SpecCandidates *)

MaxPlaces == 3

\* cafes and parks under two spellings of a name or without a name, at
\* 111 m on either side of the query point and 3.3 km away, and an unnamed
\* cafe 3 m further in the same finest cell
CandidatePlaces ==
    {[kind |-> k, name |-> n, lat |-> l] :
        k \in {"cafe", "park"}, n \in {"Joe's", "JOES", ""}, l \in {9900, 10100, 13000}}
    \cup {[kind |-> "cafe", name |-> "", lat |-> 10103]}

PlaceId(i) == "c" \o IntToStr(i)

\* lists of up to MaxPlaces of these places, with distinct ids
PlaceLists ==
    {[i \in DOMAIN ps |-> Pl(PlaceId(i), ps[i].kind, ps[i].name, ps[i].lat)] :
        ps \in SeqsUpTo(CandidatePlaces, MaxPlaces)}

\* unnamed report cells of four parent cells, two of them with fewer than
\* five confirmations and two with five or more
CellsHot ==
    <<Row(90, 3, 0, 0, ""), Row(95, 2, 0, 0, ""), Row(104, 6, 0, 0, ""),
      Row(110, 5, 0, 0, "")>>

\* two unnamed report cells of one parent cell with three and two
\* confirmations
CellsPair == <<Row(84, 3, 0, 0, ""), Row(85, 2, 0, 0, "")>>

InitCandidates ==
    /\ apiKey = TRUE
    /\ memCache = <<>>
    /\ clock = 0
    /\ req = [r \in Reqs |-> IdleReq]
    /\ hist = [insertedAt |-> <<>>, started |-> 0]
    /\ \E places \in PlaceLists, cells \in {<<>>, CellsHot, CellsPair} :
          fn = [stage |-> "input", places |-> places, cells |-> cells]

\* scored[] and deduped[] before the sort
CandidatesOf(f, hotspots, scored) ==
    [stage |-> "output", places |-> f.places, cells |-> f.cells, hotspots |-> hotspots,
     scored |-> scored, out |-> dedupeBestByKey(scored)]

\* lines 538-737 for a request at latitude 0.1 with the default intent, no
\* text and no cameras
Candidates ==
    /\ fn.stage = "input"
    /\ fn' = CandidatesOf(fn, BuildHotspots(fn.cells, TRUE, 10000, 0, intentConfig("")),
                          ScoreEach(fn.places
                                    \o BuildHotspots(fn.cells, TRUE, 10000, 0, intentConfig("")),
                                    10000, 0, "", intentConfig(""), {}, <<>>, fn.cells))
    /\ UNCHANGED <<apiKey, memCache, clock, req, hist>>

NextCandidates == Candidates

SpecCandidates == InitCandidates /\ [][NextCandidates]_vars

-----------------------------------------------------------------------------
(* The cache keys of two requests: SpecKey *)

\* requests at five latitudes, of which three and two round alike, with
\* three texts, of which two normalize alike, four sizes, of which two are
\* the same in effect, and four lists of excluded kinds, of which two hold
\* the same kinds
KeyBodies ==
    {Body(JNum(lat), JNum(0), text, maxResults, excludeKinds) :
        lat \in {10000, 10004, 10005, -1, 4},
        text \in {"", "Late JOES", "late, joe's!"},
        maxResults \in {Undef, JNum(5), JNum(2), JStr("abc")},
        excludeKinds \in {<<>>, <<"cafe">>, <<"park", "cafe">>, <<"cafe", "park", "cafe">>}}

InitKey ==
    /\ apiKey = TRUE
    /\ memCache = <<>>
    /\ clock = 0
    /\ req = [r \in Reqs |-> IdleReq]
    /\ hist = [insertedAt |-> <<>>, started |-> 0]
    /\ \E body \in KeyBodies : fn = [stage |-> "input", a |-> body]

\* lines 459-475 with what they have computed
KeyWith(lat, lon, text, maxResults, exclude, intent) ==
    [lat |-> lat, lon |-> lon, text |-> text, maxResults |-> maxResults,
     exclude |-> exclude, intent |-> intent,
     cacheKey |-> CacheKey(intent, lat, lon, maxResults, text, exclude)]

KeyFor(body, text) ==
    KeyWith(ToNumber(Field(body, "lat")).v, ToNumber(Field(body, "lon")).v, text,
            ClampMaxResults(Field(body, "maxResults")), ExcludeOf(body), classifyIntent(text))

\* a second request arrives and both get their cache keys
KeyBoth ==
    /\ fn.stage = "input"
    /\ \E body \in KeyBodies :
          fn' = [stage |-> "output", a |-> KeyFor(fn.a, TextOf(fn.a)),
                 b |-> KeyFor(body, TextOf(body))]
    /\ UNCHANGED <<apiKey, memCache, clock, req, hist>>

NextKey == KeyBoth

SpecKey == InitKey /\ [][NextKey]_vars

-----------------------------------------------------------------------------
(* Properties of the responses *)

Done(q) == q.pc = "done"

\* the response carries a results payload
HasResults(q) == Done(q) /\ q.status = 200 /\ "results" \in DOMAIN q.resp

ResultsOf(q) == IF HasResults(q) THEN q.resp.results ELSE <<>>

\* the distance of an item's place from the query point of request q
TrueDistance(q, it) == haversineMeters(q.lat, q.lon, it.place.lat, it.place.lon)

RangeLimit(q) == intentConfig(q.intent).maxDistanceM * 1050

\* distance_m was measured from a point whose coordinates round, to four
\* decimals, to those of request q
FromKeyPoint(q, it) ==
    \E lat0 \in (q.lat - 10)..(q.lat + 10) :
        /\ toFixed4(lat0) = toFixed4(q.lat)
        /\ it.distance_m = haversineMeters(lat0, q.lon, it.place.lat, it.place.lon)

\* C1 as stated: every item of every response lies within
\* maxDistance(intent) * 1.05 of the query point of the request answered.
C1_AsStated ==
    \A r \in Reqs : \A i \in DOMAIN ResultsOf(req[r]) :
        TrueDistance(req[r], ResultsOf(req[r])[i]) <= RangeLimit(req[r])

\* C1: in every response, of either branch, each item's distance_m is at
\* most maxDistance(intent) * 1.05; in a response computed for the request
\* distance_m is the distance from its query point, and in a response
\* replayed from the cache it is the distance from a query point with the
\* same coordinates to four decimals.
C1_Distance ==
    \A r \in Reqs : \A i \in DOMAIN ResultsOf(req[r]) :
        /\ ResultsOf(req[r])[i].distance_m <= RangeLimit(req[r])
        /\ req[r].served # "hit" =>
              ResultsOf(req[r])[i].distance_m = TrueDistance(req[r], ResultsOf(req[r])[i])
        /\ req[r].served = "hit" => FromKeyPoint(req[r], ResultsOf(req[r])[i])

\* a computed response of each branch, the normal one with an item in the 5%
\* margin beyond maxDistance
C1_Witness ==
    /\ req["r1"].served = "normal"
    /\ \E i \in DOMAIN ResultsOf(req["r1"]) :
          ResultsOf(req["r1"])[i].distance_m
             > intentConfig(req["r1"].intent).maxDistanceM * 1000
    /\ req["r2"].served = "hotspots_only"
    /\ Len(ResultsOf(req["r2"])) > 0

NameClash(a, b, key) ==
    /\ PresentationKey(a) = key
    /\ PresentationKey(b) = key
    /\ haversineMeters(a.place.lat, a.place.lon, b.place.lat, b.place.lon) <= 180 * 1000

HotspotCount(items) ==
    Cardinality({i \in DOMAIN items : items[i].place.kind = "community_hotspot"})

\* min(2, ceil(maxResults / 3)) for a finite maxResults
HotspotCap(q) == Min(2, (q.maxResults.v + 2) \div 3)

\* C3 as stated: whenever community_hotspot is not excluded, a response holds
\* at most min(2, ceil(maxResults/3)) hotspots, for every exclusion set.
C3_AsStated ==
    \A r \in Reqs :
        (HasResults(req[r]) /\ "community_hotspot" \notin req[r].exclude) =>
            HotspotCount(ResultsOf(req[r])) <= HotspotCap(req[r])

\* C3: whenever community_hotspot is not excluded and at least one kind
\* queried for the intent is not excluded either, a response holds at most
\* min(2, ceil(maxResults/3)) hotspots. (When every queried kind is excluded
\* the response holds up to maxResults hotspots.)
C3_HotspotCap ==
    \A r \in Reqs :
        (/\ HasResults(req[r])
         /\ "community_hotspot" \notin req[r].exclude
         /\ \E k \in Range(intentConfig(req[r].intent).kindsQuery) : k \notin req[r].exclude)
        => HotspotCount(ResultsOf(req[r])) <= HotspotCap(req[r])

\* a response of the normal branch that holds as many hotspots as the cap
\* allows although more candidates were built
C3_Witness ==
    \E r \in Reqs :
        /\ req[r].served = "normal"
        /\ HotspotCount(ResultsOf(req[r])) = HotspotCap(req[r])
        /\ req[r].resp.meta.hotspotCandidates > HotspotCap(req[r])

-----------------------------------------------------------------------------
(* Properties of the rerank *)

\* the number of items of a list that carry an id
Times(items, id) == Cardinality({i \in DOMAIN items : items[i].place.id = id})

\* C4: for every answer of the collaborator aiRerankResults returns every id
\* of its input exactly once and no other id; given at most one item it
\* returns its input as it is and makes no call.
C4_IdsKept ==
    fn # <<>> /\ fn.stage = "output" =>
        /\ \A i \in DOMAIN fn.items : Times(fn.out.ordered, fn.items[i].place.id) = 1
        /\ \A i \in DOMAIN fn.out.ordered :
              Times(fn.items, fn.out.ordered[i].place.id) = 1
        /\ Len(fn.items) <= 1 => (fn.out.ordered = fn.items /\ ~fn.out.called)

\* three items, an order that repeats an id and names an unknown one, and an
\* output in another order than the input
C4_Witness ==
    /\ fn # <<>>
    /\ fn.stage = "output"
    /\ Len(fn.items) = 3
    /\ fn.answer.kind = "ok"
    /\ \E i, j \in DOMAIN fn.answer.order : i # j /\ fn.answer.order[i] = fn.answer.order[j]
    /\ \E i \in DOMAIN fn.answer.order : fn.answer.order[i] = "zz"
    /\ IdsOf(fn.out.ordered) # IdsOf(fn.items)

\* the rerank call of the request came to nothing
RerankFailed(q) == q.served = "normal" /\ q.answer \in {"timeout", "reject", "garbage"}

\* C5 as stated: when the rerank call times out, fails or returns
\* unparseable output, the results are the pre-rerank selection: the same
\* items in the same sequence.
C5_AsStated == \A r \in Reqs : RerankFailed(req[r]) => req[r].resp.results = req[r].top

\* the place of an item in a list that holds it
PlaceIn(items, it) == CHOOSE i \in DOMAIN items : items[i] = it

\* C5: when the rerank call times out, fails or returns unparseable output,
\* the results are the pre-rerank selection after the presentation dedupe:
\* items of the selection in the order of the selection, and an item of
\* the selection is missing only if an item selected before it, and kept,
\* has the same non-empty normalized name within 180 m.
C5_OrderKept ==
    \A r \in Reqs : RerankFailed(req[r]) =>
        /\ \A i \in DOMAIN req[r].resp.results :
              \E j \in DOMAIN req[r].top : req[r].top[j] = req[r].resp.results[i]
        /\ \A i, j \in DOMAIN req[r].resp.results :
              i < j => PlaceIn(req[r].top, req[r].resp.results[i])
                          < PlaceIn(req[r].top, req[r].resp.results[j])
        /\ \A j \in DOMAIN req[r].top :
              \/ \E i \in DOMAIN req[r].resp.results : req[r].resp.results[i] = req[r].top[j]
              \/ \E k \in 1..(j - 1) :
                    /\ \E i \in DOMAIN req[r].resp.results :
                          req[r].resp.results[i] = req[r].top[k]
                    /\ PresentationKey(req[r].top[j]) # ""
                    /\ NameClash(req[r].top[k], req[r].top[j], PresentationKey(req[r].top[j]))

\* a rerank call that timed out on a selection of which the response then
\* lacks an item
C5_Witness ==
    \E r \in Reqs :
        /\ req[r].served = "normal"
        /\ req[r].answer = "timeout"
        /\ Len(req[r].resp.results) >= 2
        /\ Len(req[r].resp.results) < Len(req[r].top)

-----------------------------------------------------------------------------
(* Properties of the failure handling *)

\* the body carries a finite number for both coordinates
HasCoordinates(body) == body.parsed /\ body.lat.k = "num" /\ body.lon.k = "num"

\* C6 as stated: whatever the state of the rerank collaborator, its missing
\* credential included, a request with valid coordinates gets HTTP 200 and
\* the results payload.
C6_AsStated ==
    \A r \in Reqs : (Done(req[r]) /\ HasCoordinates(req[r].body)) => HasResults(req[r])

SourceFailed(kind) == kind \in {"reject", "badjson", "noarray", "abort"}

\* the item was scored with the report cells, with the camera points
ScoredWithReports(it) == it.report_yes > 0 \/ it.place.kind = "community_hotspot"

ScoredWithCameras(it) == it.cameras_in_k1 > 0

\* C7: when the fetches of a request have settled, whichever of them failed
\* (rejected, unparseable body, body without the array, aborted at 12 s),
\* the response is HTTP 200 with a results payload; a failed source counts
\* as an empty collection, and the data of the sources that answered is
\* used in the scores of the candidates.
C7_Degraded ==
    \A r \in Reqs : (Done(req[r]) /\ req[r].src # <<>>) =>
        /\ HasResults(req[r])
        /\ SourceFailed(req[r].src[1]) =>
              (req[r].resp.meta.placesFetched = 0
               /\ \A i \in DOMAIN req[r].resp.results :
                     req[r].resp.results[i].place.kind = "community_hotspot")
        /\ SourceFailed(req[r].src[2]) =>
              (req[r].resp.meta.camerasFetched = 0
               /\ \A i \in DOMAIN req[r].resp.results :
                     ~ScoredWithCameras(req[r].resp.results[i]))
        /\ SourceFailed(req[r].src[3]) =>
              (req[r].resp.meta.reportCellsFetched = 0
               /\ \A i \in DOMAIN req[r].resp.results :
                     ~ScoredWithReports(req[r].resp.results[i]))
        /\ (req[r].src[1] = "ok" /\ req[r].exclude = {}) =>
              (req[r].resp.meta.placesFetched > 0
               /\ \E i \in DOMAIN req[r].pool :
                     req[r].pool[i].place.kind # "community_hotspot")
        /\ (req[r].src[1] = "ok" /\ req[r].src[2] = "ok" /\ req[r].exclude = {}) =>
              \E i \in DOMAIN req[r].pool : ScoredWithCameras(req[r].pool[i])
        /\ (req[r].src[3] = "ok" /\ req[r].exclude = {}) =>
              \E i \in DOMAIN req[r].pool : ScoredWithReports(req[r].pool[i])

\* places answered, cameras failed, report cells were aborted, and the
\* response still lists places
C7_Witness ==
    \E r \in Reqs :
        /\ Done(req[r])
        /\ req[r].src = <<"ok", "badjson", "abort">>
        /\ req[r].status = 200
        /\ Len(ResultsOf(req[r])) > 0

-----------------------------------------------------------------------------
(* Properties of the cache and of the validation *)

\* the step is the arrival of a request in slot r
Arrives(r) == hist'.started = hist.started + 1 /\ req'[r] # req[r]

\* the map holds an entry for the key that is less than 60 s old
YoungEntry(key) == key \in DOMAIN memCache /\ clock - memCache[key].at < 60000

C9_AsStated ==
    \A r \in Reqs :
        (req[r].lookups = 1 /\ req[r].seen # <<>>) =>
            /\ (req[r].now - req[r].seen[1].insertedAt < 60000) <=> (req[r].served = "hit")
            /\ req[r].served = "hit" => req[r].writes = 0

\* the JSON value is absent or is not a number
NoNumber(j) == j.k # "num"

\* C10 as stated: a request whose lat or lon is missing or is not a finite
\* number, an unparseable body included, gets HTTP 400 with
\* {error: "bad_lat_lon"}, and no cache lookup, call or cache write is made.
C10_AsStated ==
    \A r \in Reqs :
        (Done(req[r])
         /\ (NoNumber(Field(req[r].body, "lat")) \/ NoNumber(Field(req[r].body, "lon")))) =>
            /\ req[r].status = 400
            /\ req[r].resp = [error |-> "bad_lat_lon"]
            /\ req[r].lookups = 0
            /\ req[r].calls = [places |-> 0, cameras |-> 0, report |-> 0, rerank |-> 0]
            /\ req[r].writes = 0

-----------------------------------------------------------------------------
(* Properties of the error handling *)

\* some exception was raised in the course of the request: a source fetch
\* failed, the rerank call failed, or the scoring threw
Raised(q) ==
    \/ q.threw # ""
    \/ \E i \in DOMAIN q.src : SourceFailed(q.src[i])
    \/ q.answer \in {"timeout", "reject", "garbage"}

ErrorBody(q) == DOMAIN q.resp = {"error", "intent"} /\ q.resp.intent = q.intent

\* C11 as stated: a request with valid coordinates in which an exception
\* was raised while fetching, scoring or reranking gets HTTP 200 with
\* {error, intent} and writes nothing into the cache.
C11_AsStated ==
    \A r \in Reqs :
        (Done(req[r]) /\ req[r].lookups = 1 /\ Raised(req[r])) =>
            /\ req[r].status = 200
            /\ ErrorBody(req[r])
            /\ req[r].writes = 0

\* C11: an exception thrown by the scoring of a request reaches the outer
\* catch: the response is HTTP 200 with {error, intent} and the cache map is
\* left exactly as it was; a request answered with 400 leaves the map as it
\* was too. A request that ends after the fetches without such an exception,
\* failed source fetches and a failed rerank call included, gets the results
\* payload, which is stored under its key.
C11_Caught ==
    [][\A r \in Reqs :
          /\ (req[r].pc = "fetching" /\ req'[r].threw # "") =>
                /\ req'[r].status = 200
                /\ ErrorBody(req'[r])
                /\ req'[r].writes = 0
                /\ memCache' = memCache
          /\ (Arrives(r) /\ req'[r].status = 400) =>
                (req'[r].writes = 0 /\ memCache' = memCache)
          /\ (req[r].pc \in {"fetching", "reranking"} /\ Done(req'[r])
              /\ req'[r].threw = "") =>
                /\ HasResults(req'[r])
                /\ req'[r].cacheKey \in DOMAIN memCache'
                /\ memCache'[req'[r].cacheKey].data = req'[r].resp]_vars

\* the scoring of a request threw while the cache held an expired entry for
\* its key, and the entry is still there
C11_Witness ==
    \E r \in Reqs :
        /\ req[r].threw = "scoring"
        /\ req[r].served = "error"
        /\ req[r].seen # <<>>
        /\ req[r].cacheKey \in DOMAIN memCache
        /\ memCache[req[r].cacheKey].data = req[r].seen[1].data
        /\ "results" \in DOMAIN memCache[req[r].cacheKey].data

-----------------------------------------------------------------------------
(* Properties of classifyIntent *)

\* the keyword groups in the order of their precedence
KeywordGroups ==
    <<[intent |-> "facebook_marketplace_sale",
       words |-> {"facebook", "marketplace", "sell", "buyer", "cash"}],
      [intent |-> "first_date", words |-> {"date", "tinder", "hinge", "first time"}],
      [intent |-> "night_walk", words |-> {"night", "walk", "parking", "late"}]>>

\* the normalized text holds a keyword of group g
Mentions(text, g) == \E w \in KeywordGroups[g].words : Includes(normalizeText(text), w)

\* the groups of which the text holds a keyword
GroupsIn(text) == {g \in DOMAIN KeywordGroups : Mentions(text, g)}

\* C12: classifyIntent answers every text, always alike, with the intent of
\* the first keyword group (marketplace, then dating, then night) of which
\* the text holds a keyword, whatever later groups it holds too, and with
\* the general intent when it holds none, the empty text included.
C12_FirstMatch ==
    (fn # <<>> /\ fn.stage = "output") =>
        /\ fn.intent = fn.again
        /\ fn.intent \in {"facebook_marketplace_sale", "first_date", "night_walk",
                          "general_safe_meetup"}
        /\ GroupsIn(fn.text) = {} => fn.intent = "general_safe_meetup"
        /\ \A g \in GroupsIn(fn.text) :
              (\A h \in GroupsIn(fn.text) : g <= h) => fn.intent = KeywordGroups[g].intent

\* a text with a night keyword before a marketplace keyword is classified as
\* a marketplace sale
C12_Witness ==
    /\ fn # <<>>
    /\ fn.stage = "output"
    /\ fn.text = "night cashew"
    /\ fn.intent = "facebook_marketplace_sale"

-----------------------------------------------------------------------------
(* Properties of the hotspots-only branch *)

\* the exclusion set of the body removes every kind queried for its intent
ExcludesAllQueried(body) ==
    AllowedKinds(intentConfig(classifyIntent(TextOf(body))), ExcludeOf(body)) = <<>>

\* the response of the hotspots-only branch to the body of request q
HotspotsOnlyResponse(q) ==
    /\ HasResults(q)
    /\ q.calls.places = 0
    /\ q.calls.rerank = 0
    /\ IF "community_hotspot" \notin ExcludeOf(q.body)
       THEN /\ \A i \in DOMAIN q.resp.results :
                  q.resp.results[i].place.kind = "community_hotspot"
            /\ q.resp.note = "Community-only mode: showing community hotspot candidates."
       ELSE /\ q.resp.results = <<>>
            /\ q.resp.note
                  = "All place kinds excluded and community disabled, returning no results."

\* C13 as stated: a request with coordinates whose exclusion set removes
\* every kind queried for the intent gets the response of the hotspots-only
\* branch: hotspots only and the community-only note, or nothing and the
\* note that says so when hotspots are excluded too; no places fetch and no
\* rerank call is made.
C13_AsStated ==
    \A r \in Reqs :
        (Done(req[r]) /\ HasCoordinates(req[r].body) /\ ExcludesAllQueried(req[r].body))
            => HotspotsOnlyResponse(req[r])

\* C13, for a process whose rerank credential is set: such a request gets
\* the response of the hotspots-only branch.
C13_HotspotsOnly ==
    \A r \in Reqs :
        (apiKey /\ Done(req[r]) /\ HasCoordinates(req[r].body)
         /\ ExcludesAllQueried(req[r].body))
            => HotspotsOnlyResponse(req[r])

\* a response of the branch that lists hotspots although places could have
\* been fetched for the area
C13_Witness ==
    \E r \in Reqs :
        /\ req[r].served = "hotspots_only"
        /\ Len(req[r].resp.results) >= 2
        /\ req[r].resp.meta.placesFetched = 0
        /\ req[r].src[1] = "none"

-----------------------------------------------------------------------------
(* Properties of the selection *)

\* the request took the normal branch and has made its selection
HasSelected(q) == q.pc \in {"reranking", "done"} /\ q.meta # <<>>

Selects(q, it) == \E i \in DOMAIN q.top : q.top[i] = it

\* C14: in the selection made before the rerank every ordinary place with
\* evidence stands before every ordinary place without, and a place without
\* evidence is selected only if every place with evidence that is left
\* after the deduplication by identity is selected too, whatever the scores.
C14_EvidenceFirst ==
    \A r \in Reqs : HasSelected(req[r]) =>
        /\ \A i, j \in DOMAIN req[r].top :
              (Primary(req[r].top[i]) /\ Secondary(req[r].top[j])) => i < j
        /\ (\E j \in DOMAIN req[r].top : Secondary(req[r].top[j])) =>
              \A k \in DOMAIN req[r].pool :
                  Primary(req[r].pool[k]) => Selects(req[r], req[r].pool[k])

\* a selection in which a place with evidence stands before a place without
\* evidence that scores higher, and one that left out a place without
\* evidence that scores higher than a selected place with evidence
C14_Witness ==
    /\ \E r \in Reqs : HasSelected(req[r]) /\
          \E i, j \in DOMAIN req[r].top :
              /\ Primary(req[r].top[i]) /\ Secondary(req[r].top[j])
              /\ req[r].top[j].score > req[r].top[i].score
              /\ \E k \in DOMAIN req[r].pool :
                    Secondary(req[r].pool[k]) /\ ~Selects(req[r], req[r].pool[k])

\* C15 as stated: for every size from 1 to 30, a selection made while an
\* ordinary place is left after scoring and deduplication holds an
\* ordinary place.
C15_AsStated ==
    \A r \in Reqs :
        (HasSelected(req[r]) /\ ~req[r].maxResults.nan
         /\ \E k \in DOMAIN req[r].pool : NotHotspot(req[r].pool[k]))
            => \E i \in DOMAIN req[r].top : NotHotspot(req[r].top[i])

\* C15, for the sizes from 2 to 30: such a selection holds an ordinary
\* place. With the size 1 it holds one exactly when no hotspot was built.
C15_Supplement ==
    \A r \in Reqs :
        (HasSelected(req[r]) /\ ~req[r].maxResults.nan
         /\ \E k \in DOMAIN req[r].pool : NotHotspot(req[r].pool[k]))
            => ((\E i \in DOMAIN req[r].top : NotHotspot(req[r].top[i]))
                <=> (req[r].maxResults.v >= 2
                     \/ \A k \in DOMAIN req[r].pool : NotHotspot(req[r].pool[k])))

\* a selection that holds as many hotspots as the cap allows and, after
\* them, a place that scores lower than a hotspot left out
C15_Witness ==
    \E r \in Reqs :
        /\ HasSelected(req[r])
        /\ ~req[r].maxResults.nan
        /\ \E k \in DOMAIN req[r].pool : \E i \in DOMAIN req[r].top :
              /\ IsHotspot(req[r].pool[k])
              /\ ~Selects(req[r], req[r].pool[k])
              /\ NotHotspot(req[r].top[i])
              /\ req[r].pool[k].score > req[r].top[i].score

-----------------------------------------------------------------------------
(* Properties of the size of the response *)

\* the request got as far as the clamp of maxResults and past the validation
Sized(q) == q.lookups = 1

\* C16 as stated: for every body the effective maxResults is a value from 1
\* to 30, 5 when the field is absent, and the results never hold more items
\* than that.
C16_AsStated ==
    \A r \in Reqs : Sized(req[r]) =>
        /\ ~req[r].maxResults.nan
        /\ req[r].maxResults.v \in 1..30
        /\ Field(req[r].body, "maxResults") = Undef => req[r].maxResults = Num(5)
        /\ Len(ResultsOf(req[r])) <= req[r].maxResults.v

\* C16, for what the clamp does: a maxResults that is a number, or absent,
\* null, 0 or "", gives a value from 1 to 30 (5 for the latter four) and
\* the results never hold more items than that; a maxResults that does not
\* convert to a number gives NaN and the results are empty.
C16_Bounded ==
    \A r \in Reqs : Sized(req[r]) =>
        /\ ~req[r].maxResults.nan =>
              (req[r].maxResults.v \in 1..30
               /\ Len(ResultsOf(req[r])) <= req[r].maxResults.v)
        /\ ~Truthy(Field(req[r].body, "maxResults")) => req[r].maxResults = Num(5)
        /\ req[r].maxResults.nan => ResultsOf(req[r]) = <<>>

\* a response cut to its size by the final slice after the rerank, and a
\* request whose size is 30 for a maxResults of 100
C16_Witness ==
    \E r \in Reqs :
        /\ req[r].served = "normal"
        /\ req[r].answer = "ok"
        /\ Len(req[r].resp.results) = req[r].maxResults.v
        /\ Len(req[r].pool) > req[r].maxResults.v

-----------------------------------------------------------------------------
(* Properties of the calls *)

Collaborators == {"places", "cameras", "report", "rerank"}

\* C17: within one request each collaborator (places, cameras and report
\* fetch, rerank call) is invoked at most once: a source that failed, was
\* aborted or gave nothing and a rerank call that failed or timed out were
\* invoked once and not again.
C17_Once ==
    \A r \in Reqs :
        /\ \A c \in Collaborators : req[r].calls[c] <= 1
        /\ (Done(req[r]) /\ req[r].src # <<>>) =>
              /\ req[r].calls.places = (IF req[r].src[1] = "none" THEN 0 ELSE 1)
              /\ req[r].calls.cameras = 1
              /\ req[r].calls.report = 1
        /\ (Done(req[r]) /\ req[r].answer # "") => req[r].calls.rerank = 1

\* a request that ended after two of its fetches and its rerank call failed
C17_Witness ==
    \E r \in Reqs :
        /\ Done(req[r])
        /\ req[r].src = <<"ok", "reject", "abort">>
        /\ req[r].answer = "timeout"
        /\ req[r].calls = [places |-> 1, cameras |-> 1, report |-> 1, rerank |-> 1]

-----------------------------------------------------------------------------
(* Properties of concurrent requests *)

\* the step ends a request that was waiting for its sources or its rerank
Completes(r) == req[r].pc \in {"fetching", "reranking"} /\ Done(req'[r])

\* the request computed a payload of its own and stored it
Stored(q) == Done(q) /\ q.served \in {"normal", "hotspots_only"} /\ q.writes = 1

\* both requests looked up the same key and found no entry: the second
\* arrived before the first had stored its payload
BothMissed(q, o) ==
    /\ q.lookups = 1 /\ o.lookups = 1
    /\ q.cacheKey = o.cacheKey
    /\ q.seen = <<>> /\ o.seen = <<>>

OwnWork(q) == q.src # <<>> /\ q.calls.cameras = 1 /\ q.calls.report = 1

\* C18: two requests with one cache key that both miss are not coalesced.
\* The second starts its own fetches while the first is waiting; each ends
\* with its own fetches, scoring and rerank done; and when the second of
\* them to end stores its payload, the entry of the key is that payload,
\* with the time at which that request started.
C18_LastWins ==
    [][\A r \in Reqs : \A o \in Reqs \ {r} :
          /\ (Arrives(o) /\ req[r].pc \in {"fetching", "reranking"}
              /\ BothMissed(req[r], req'[o])) =>
                (req'[o].pc = "fetching" /\ req'[o].calls.cameras = 1
                 /\ req'[o].calls.report = 1 /\ req'[r] = req[r])
          /\ (Completes(r) /\ Stored(req'[r]) /\ Stored(req[o])
              /\ BothMissed(req'[r], req[o])) =>
                /\ OwnWork(req'[r]) /\ OwnWork(req[o])
                /\ memCache'[req[r].cacheKey]
                      = [at |-> req[r].now, data |-> req'[r].resp]]_vars

\* two requests of one key that both missed and computed different
\* payloads; the entry holds the payload of the one that started first,
\* which therefore ended last
C18_Witness ==
    /\ Stored(req["r1"]) /\ Stored(req["r2"])
    /\ BothMissed(req["r1"], req["r2"])
    /\ req["r1"].resp # req["r2"].resp
    /\ req["r1"].now < req["r2"].now
    /\ req["r1"].answer # "" /\ req["r2"].answer # ""
    /\ memCache[req["r1"].cacheKey] = [at |-> req["r1"].now, data |-> req["r1"].resp]

-----------------------------------------------------------------------------
(* Properties of the order of the rerank *)

\* the order list the collaborator's answer comes to
GivenOrder(answer) == IF answer.kind = "ok" THEN answer.order ELSE <<>>

\* the places of the order list that are taken: a known id at its first
\* occurrence
TakenAt(ids, order) ==
    {i \in DOMAIN order :
        /\ \E k \in DOMAIN ids : ids[k] = order[i]
        /\ \A j \in 1..(i - 1) : order[j] # order[i]}

\* the k-th smallest member of a set of numbers
Nth(P, k) == CHOOSE i \in P : Cardinality({j \in P : j < i}) = k - 1

NotIn(order, id) == \A i \in DOMAIN order : order[i] # id

\* C19: the list returned by aiRerankResults for more than one item is: the
\* ids of the order list in sequence, without the ids that belong to no
\* input item and without the later occurrences of a repeated id, and after
\* them every input item whose id was not taken, in the order of the input.
C19_Order ==
    (fn # <<>> /\ fn.stage = "output" /\ Len(fn.items) > 1) =>
        /\ Len(fn.out.ordered) = Len(fn.items)
        /\ \A k \in 1..Cardinality(TakenAt(IdsOf(fn.items), GivenOrder(fn.answer))) :
              fn.out.ordered[k].place.id
                 = GivenOrder(fn.answer)[Nth(TakenAt(IdsOf(fn.items), GivenOrder(fn.answer)), k)]
        /\ SubSeq(IdsOf(fn.out.ordered),
                  Cardinality(TakenAt(IdsOf(fn.items), GivenOrder(fn.answer))) + 1,
                  Len(fn.items))
              = SelectSeq(IdsOf(fn.items), LAMBDA id : NotIn(GivenOrder(fn.answer), id))

\* an order that starts with an unknown id, names the last item, then the
\* same again, and leaves out two items, which follow in input order
C19_Witness ==
    /\ fn # <<>>
    /\ fn.stage = "output"
    /\ IdsOf(fn.items) = <<"a", "b", "c">>
    /\ fn.answer.kind = "ok"
    /\ fn.answer.order = <<"zz", "c", "c">>
    /\ IdsOf(fn.out.ordered) = <<"c", "a", "b">>

-----------------------------------------------------------------------------
(* Properties of the hotspot build *)

\* the rows that qualify: at least two confirmations
Qualifying(cells) == {i \in DOMAIN cells : cells[i].camera_present_count >= 2}

ParentOf(c) == cellToParent(c.h3_index, HOTSPOT_RES)

\* the qualifying rows of the parent cell of row i
GroupOf(cells, i) == {j \in Qualifying(cells) : ParentOf(cells[j]) = ParentOf(cells[i])}

\* the first row of a group among those with the most confirmations
BestOf(cells, G) ==
    CHOOSE i \in G : \A j \in G :
        \/ cells[j].camera_present_count < cells[i].camera_present_count
        \/ (cells[j].camera_present_count = cells[i].camera_present_count /\ i <= j)

\* the hotspots built for the parent cell of row i
BuiltFor(out, c) == {k \in DOMAIN out : out[k].id = "community/" \o CellStr(ParentOf(c))}

CenterOf(c) == cellToLatLng(c.h3_index)

CenterInRange(lat, lon, c) ==
    ~TooFar(haversineMeters(lat, lon, CenterOf(c)[1], CenterOf(c)[2]), intentConfig(""))

\* the distance between the centres of two rows' cells, in millimetres
Apart(c, d) == haversineMeters(CenterOf(c)[1], CenterOf(c)[2], CenterOf(d)[1], CenterOf(d)[2])

\* C20 as stated: rows with fewer than two confirmations make no hotspot;
\* the other rows of one parent cell make exactly one hotspot, at the
\* centre of the first row with the most confirmations; so two qualifying
\* rows whose cells lie no more than 300 m apart make exactly one hotspot.
C20_AsStated ==
    (fn # <<>> /\ fn.stage = "output" /\ fn.enabled) =>
        /\ \A k \in DOMAIN fn.out : \E i \in Qualifying(fn.cells) : k \in BuiltFor(fn.out, fn.cells[i])
        /\ \A i \in Qualifying(fn.cells) :
              /\ Cardinality(BuiltFor(fn.out, fn.cells[i])) = 1
              /\ \A k \in BuiltFor(fn.out, fn.cells[i]) :
                    <<fn.out[k].lat, fn.out[k].lon>>
                       = CenterOf(fn.cells[BestOf(fn.cells, GroupOf(fn.cells, i))])
        /\ \A i, j \in Qualifying(fn.cells) :
              (Qualifying(fn.cells) = {i, j} /\ Apart(fn.cells[i], fn.cells[j]) <= 300 * 1000)
                  => Len(fn.out) = 1

\* C20: with hotspots enabled, rows with fewer than two confirmations make
\* no hotspot, and the other rows of one parent cell make at most one
\* hotspot, with id community/<parent>: exactly one, at the centre of the
\* first row with the most confirmations, when that centre is within range
\* of the query point, and none when it is not. Two qualifying rows make one
\* hotspot when their cells share a parent and two when they do not, which
\* can be so for cells less than 300 m apart. With hotspots excluded none
\* is built.
C20_Hotspots ==
    (fn # <<>> /\ fn.stage = "output") =>
        /\ ~fn.enabled => fn.out = <<>>
        /\ fn.enabled =>
              /\ \A k \in DOMAIN fn.out :
                    \E i \in Qualifying(fn.cells) : k \in BuiltFor(fn.out, fn.cells[i])
              /\ \A i \in Qualifying(fn.cells) :
                    /\ Cardinality(BuiltFor(fn.out, fn.cells[i]))
                          = (IF CenterInRange(fn.lat, fn.lon,
                                              fn.cells[BestOf(fn.cells, GroupOf(fn.cells, i))])
                             THEN 1 ELSE 0)
                    /\ \A k \in BuiltFor(fn.out, fn.cells[i]) :
                          <<fn.out[k].lat, fn.out[k].lon>>
                             = CenterOf(fn.cells[BestOf(fn.cells, GroupOf(fn.cells, i))])
              /\ \A i, j \in Qualifying(fn.cells) :
                    (Qualifying(fn.cells) = {i, j} /\ i # j
                     /\ CenterInRange(fn.lat, fn.lon, fn.cells[i])
                     /\ CenterInRange(fn.lat, fn.lon, fn.cells[j]))
                        => Len(fn.out) = (IF ParentOf(fn.cells[i]) = ParentOf(fn.cells[j])
                                          THEN 1 ELSE 2)

\* three rows of one parent cell, the first without enough confirmations
\* and the other two with two each, 267 m apart: one hotspot at the centre
\* of the second row's cell
C20_Witness ==
    /\ fn # <<>>
    /\ fn.stage = "output"
    /\ fn.enabled
    /\ fn.cells = <<Row(85, 1, 0, 0, ""), Row(86, 2, 0, 0, ""), Row(84, 2, 0, 0, "")>>
    /\ Len(fn.out) = 1
    /\ fn.out[1].id = "community/9-28"
    /\ fn.out[1].lat = CenterOf(Row(86, 2, 0, 0, ""))[1]

-----------------------------------------------------------------------------
(* Properties of the attribution of evidence *)

Scored == fn # <<>> /\ fn.stage = "output" /\ "pl" \in DOMAIN fn /\ fn.out # <<>>

\* the row that repMap holds for the cell of row i
Held(cells, i) == \A j \in DOMAIN cells : cells[j].h3_index = cells[i].h3_index => j <= i

\* the rows held for the place's own cell, and for the two cells next to it
OwnRows(cells, h) == {i \in DOMAIN cells : Held(cells, i) /\ cells[i].h3_index = h}

RingRows(cells, h) ==
    {i \in DOMAIN cells : /\ Held(cells, i)
                           /\ cells[i].h3_index[2] \in {h[2] - 1, h[2] + 1}}

Total(c) == c.camera_present_count + c.camera_absent_count + c.signage_count

\* the ring rows with the largest total
Heaviest(cells, S) == {i \in S : \A j \in S : Total(cells[j]) <= Total(cells[i])}

\* the item carries the counts and the place name of row c
Carries(it, c) ==
    /\ it.report_yes = c.camera_present_count
    /\ it.report_no = c.camera_absent_count
    /\ it.report_signage = c.signage_count
    /\ it.report_place_name = c.place_name

CarriesNothing(it) ==
    /\ it.report_yes = 0 /\ it.report_no = 0 /\ it.report_signage = 0
    /\ it.report_place_name = ""

\* C21: a place whose own cell has a report row carries that row; otherwise
\* it carries a row only of the cells next to its own, only one with the
\* largest total among them, and only when that row's place name matches
\* the place's name at 0.45 or more; it carries nothing when the cells next
\* to it have no rows or when a row with the largest total, the only such
\* row included, does not match.
C21_Attribution ==
    Scored =>
        IF OwnRows(fn.cells, fn.out[1].h3) # {}
        THEN \A i \in OwnRows(fn.cells, fn.out[1].h3) : Carries(fn.out[1], fn.cells[i])
        ELSE /\ \/ CarriesNothing(fn.out[1])
                \/ \E i \in Heaviest(fn.cells, RingRows(fn.cells, fn.out[1].h3)) :
                      /\ Carries(fn.out[1], fn.cells[i])
                      /\ nameMatchScore(fn.pl.name, fn.cells[i].place_name) >= 45
             /\ \A i \in RingRows(fn.cells, fn.out[1].h3) :
                   (/\ Heaviest(fn.cells, RingRows(fn.cells, fn.out[1].h3)) = {i}
                    /\ nameMatchScore(fn.pl.name, fn.cells[i].place_name) >= 45)
                       => Carries(fn.out[1], fn.cells[i])
             /\ (\A i \in Heaviest(fn.cells, RingRows(fn.cells, fn.out[1].h3)) :
                    nameMatchScore(fn.pl.name, fn.cells[i].place_name) < 45)
                   => CarriesNothing(fn.out[1])

\* a place without a row of its own next to a matching row with total 3
\* and a heavier row that does not match: it carries nothing
C21_Witness ==
    /\ Scored
    /\ fn.pl.name = "Joe's Bar"
    /\ fn.cells = <<Row(84, 1, 2, 0, "Joes Cafe"), Row(86, 6, 0, 0, "Joescafe")>>
    /\ CarriesNothing(fn.out[1])

-----------------------------------------------------------------------------
(* Properties of the community sub-score *)

\* the item's score without its community sub-score and conflict penalty,
\* for a cafe without cameras around it and without a request text
RestOfScore(it) ==
    SignageScore(it.report_signage) + DistScore(it.distance_m, intentConfig(""))
    + CamScore(0) + TypeBonus("cafe", intentConfig(""))
    + PlaceMatchBoost(nameMatchScore(it.place.name, it.report_place_name))
    - (IF it.report_place_name # ""
          /\ nameMatchScore(it.place.name, it.report_place_name) < 20 THEN 1000 ELSE 0)

\* the community sub-score that the item's score holds, conflict penalty
\* included
CommunityPart(it) == it.score - RestOfScore(it)

\* C23: the community sub-score does not fall when the yes count grows and
\* does not grow when the no count grows; with six or more yes and no no it
\* is the top tier, 1.15 (weighted by 2.5), conflict is false and no
\* penalty for conflict is taken off; conflict is true exactly when both
\* counts are above zero.
C23_Community ==
    Scored =>
        /\ \A y \in 0..(MaxCount + 1) :
              /\ y >= fn.out[1].report_yes
                    => RepScore(y, fn.out[1].report_no)
                          >= RepScore(fn.out[1].report_yes, fn.out[1].report_no)
              /\ y >= fn.out[1].report_no
                    => RepScore(fn.out[1].report_yes, y)
                          <= RepScore(fn.out[1].report_yes, fn.out[1].report_no)
        /\ (fn.out[1].report_yes >= 6 /\ fn.out[1].report_no = 0)
              => /\ ~fn.out[1].conflict
                 /\ CommunityPart(fn.out[1]) = (115 * 25 * 10)
        /\ fn.out[1].conflict <=> (fn.out[1].report_yes > 0 /\ fn.out[1].report_no > 0)
        /\ CommunityPart(fn.out[1])
              = RepScore(fn.out[1].report_yes, fn.out[1].report_no)
                - (IF fn.out[1].report_yes > 0 /\ fn.out[1].report_no > 0 THEN 3500 ELSE 0)

\* seven confirmations and no denial, and six denials against one
\* confirmation
C23_Witness ==
    /\ Scored
    /\ \/ fn.cells = <<Row(85, 7, 0, 0, "")>> /\ CommunityPart(fn.out[1]) = 28750
       \/ fn.cells = <<Row(85, 1, 6, 0, "")>> /\ fn.out[1].conflict

-----------------------------------------------------------------------------
(* Properties of the deduplication by identity *)

Deduplicated == fn # <<>> /\ fn.stage = "output" /\ "scored" \in DOMAIN fn

\* the key of a candidate: its kind with its normalized name, or with its
\* finest cell when the name normalizes to nothing
KeyOf(it) ==
    IF normalizeText(it.place.name) # ""
    THEN <<it.place.kind, "name", normalizeText(it.place.name)>>
    ELSE <<it.place.kind, "cell", latLngToCell(it.place.lat, it.place.lon, 13)>>

\* the keys of a list of candidates
KeysOf(items) == [i \in DOMAIN items |-> KeyOf(items[i])]

\* the first of the candidates of a key that score highest
FirstBest(scored, keys, i) ==
    \A j \in DOMAIN scored :
        keys[j] = keys[i] =>
            \/ scored[j].score < scored[i].score
            \/ (scored[j].score = scored[i].score /\ i <= j)

\* the three parts of C22 for a list, its survivors and the keys of both
IdentityHolds(scored, out, keys, outKeys) ==
    /\ \A k, m \in DOMAIN out : outKeys[k] = outKeys[m] => k = m
    /\ \A k \in DOMAIN out :
          \E i \in DOMAIN scored : scored[i] = out[k] /\ FirstBest(scored, keys, i)
    /\ \A i \in DOMAIN scored : \E k \in DOMAIN out : outKeys[k] = keys[i]

\* C22: no two of the candidates that survive dedupeBestByKey have the
\* same key; each survivor is the first of the highest scoring candidates
\* of its key; every key of the input is a key of the output.
C22_Identity ==
    Deduplicated =>
        \A keys \in {KeysOf(fn.scored)}, outKeys \in {KeysOf(fn.out)} :
            IdentityHolds(fn.scored, fn.out, keys, outKeys)

\* three cafes of one name, the second and third with the same score above
\* the first's: the second survives
C22_Witness ==
    /\ Deduplicated
    /\ Len(fn.scored) = 3
    /\ KeyOf(fn.scored[1]) = KeyOf(fn.scored[2])
    /\ KeyOf(fn.scored[2]) = KeyOf(fn.scored[3])
    /\ fn.scored[1].score < fn.scored[2].score
    /\ fn.scored[2].score = fn.scored[3].score
    /\ fn.out = <<fn.scored[2]>>

-----------------------------------------------------------------------------
(* Properties of the cache key *)

BothKeyed == fn # <<>> /\ fn.stage = "output" /\ "b" \in DOMAIN fn

\* a coordinate rounded to four decimals, as a number of 1e-4 degree
Round4(x) == IF x < 0 THEN 0 - ((5 - x) \div 10) ELSE (x + 5) \div 10

\* a coordinate written with four decimals: its sign and its digits
Fixed4(x) == <<x < 0, (Abs(x) + 5) \div 10>>

AgreeButPlace(a, b) ==
    /\ a.intent = b.intent
    /\ a.maxResults = b.maxResults
    /\ a.exclude = b.exclude
    /\ normalizeText(a.text) = normalizeText(b.text)

SameRounded(a, b) == Round4(a.lat) = Round4(b.lat) /\ Round4(a.lon) = Round4(b.lon)

SameWritten(a, b) == Fixed4(a.lat) = Fixed4(b.lat) /\ Fixed4(a.lon) = Fixed4(b.lon)

-----------------------------------------------------------------------------
(* Properties of what the rerank can change *)

Normal(q) == q.served = "normal"

IdSet(items) == {items[i].place.id : i \in DOMAIN items}

\* the results of the request had its rerank call come to nothing
Unreranked(q) == SliceJs(dedupeByNameAndDistance(q.top, 180), q.maxResults)

\* two items of the selection have the same non-empty name within 180 m
ClashIn(top) ==
    \E i, j \in DOMAIN top :
        /\ i < j
        /\ PresentationKey(top[i]) # ""
        /\ NameClash(top[i], top[j], PresentationKey(top[i]))

\* C25 as stated: the set of place ids of the results is the set that the
\* same request with the same fetched data gets when the rerank fails,
\* whatever the rerank call returned.
C25_AsStated ==
    \A r \in Reqs : Normal(req[r]) => IdSet(req[r].resp.results) = IdSet(Unreranked(req[r]))

\* C25, what holds: the ids of the results are ids of the selection, and
\* they are the same set for every outcome of the rerank when no two
\* selected items have the same non-empty normalized name within 180 m.
C25_Membership ==
    \A r \in Reqs : Normal(req[r]) =>
        /\ IdSet(req[r].resp.results) \subseteq IdSet(req[r].top)
        /\ ~ClashIn(req[r].top) => IdSet(req[r].resp.results) = IdSet(Unreranked(req[r]))

\* a rerank that put the selection into another order without changing
\* the set of ids
C25_Witness ==
    \E r \in Reqs :
        /\ Normal(req[r])
        /\ req[r].answer = "ok"
        /\ Len(req[r].resp.results) >= 2
        /\ IdsOf(req[r].resp.results) # IdsOf(Unreranked(req[r]))
        /\ IdSet(req[r].resp.results) = IdSet(Unreranked(req[r]))

-----------------------------------------------------------------------------
(* Properties of meta.aiRerankUsed *)

\* C26 as stated: meta.aiRerankUsed is true only when the rerank call
\* returned a parseable answer, and false whenever the call failed, timed
\* out or returned nothing usable.
C26_AsStated ==
    \A r \in Reqs : Normal(req[r]) =>
        /\ req[r].resp.meta.aiRerankUsed => req[r].answer = "ok"
        /\ RerankFailed(req[r]) => ~req[r].resp.meta.aiRerankUsed

\* C26, what holds: meta.aiRerankUsed is true exactly when the rerank
\* collaborator was called, that is when two or more items were selected,
\* whatever the call came to.
C26_Flag ==
    \A r \in Reqs : Normal(req[r]) =>
        (req[r].resp.meta.aiRerankUsed <=> (Len(req[r].top) >= 2 /\ req[r].calls.rerank = 1))

\* a rerank call that timed out, and a response that says the rerank was used
C26_Witness ==
    \E r \in Reqs :
        /\ Normal(req[r])
        /\ req[r].answer = "timeout"
        /\ req[r].resp.meta.aiRerankUsed

-----------------------------------------------------------------------------
(* Properties of the deduplication by identity, far apart *)

SynthesizedLabels == {"Community reported camera area", "Community confirmed camera area"}

\* the survivors that carry the key of candidate i
SurvivorsOf(outKeys, keys, i) == {k \in DOMAIN outKeys : outKeys[k] = keys[i]}

\* two candidates of one kind and one non-empty normalized name leave one
\* survivor, which scores no lower than either
CollapsedHolds(scored, out, keys, outKeys) ==
    \A i, j \in DOMAIN scored :
        (i < j /\ keys[i] = keys[j] /\ keys[i][2] = "name") =>
            /\ Cardinality(SurvivorsOf(outKeys, keys, i)) = 1
            /\ \A k \in SurvivorsOf(outKeys, keys, i) :
                  out[k].score >= scored[i].score /\ out[k].score >= scored[j].score

\* C27: two candidates of the same kind with the same non-empty normalized
\* name leave a single candidate, one that scores highest, however far
\* apart they are; so at most one hotspot of each synthesized label
\* survives, from however many parent cells such hotspots were built.
C27_NoDistance ==
    Deduplicated =>
        /\ \A keys \in {KeysOf(fn.scored)}, outKeys \in {KeysOf(fn.out)} :
              CollapsedHolds(fn.scored, fn.out, keys, outKeys)
        /\ \A label \in SynthesizedLabels :
              Cardinality({k \in DOMAIN fn.out : /\ IsHotspot(fn.out[k])
                                                  /\ fn.out[k].place.name = label}) <= 1

\* two cafes of one name 3.4 km apart and four hotspots of four parent
\* cells, two of each label: one cafe and two hotspots are left
C27_Witness ==
    /\ Deduplicated
    /\ Len(fn.places) = 2
    /\ fn.places[1].kind = "cafe" /\ fn.places[2].kind = "cafe"
    /\ fn.places[1].name = "Joe's" /\ fn.places[2].name = "JOES"
    /\ fn.places[1].lat = 9900 /\ fn.places[2].lat = 13000
    /\ Len(fn.hotspots) = 4
    /\ Len(fn.scored) = 6
    /\ \A label \in SynthesizedLabels :
          Cardinality({k \in DOMAIN fn.hotspots : fn.hotspots[k].name = label}) = 2
    /\ Len(fn.out) = 3

-----------------------------------------------------------------------------
(* Properties of the wording of hotspots *)

Says(it, reason) == \E i \in DOMAIN it.reasons : it.reasons[i] = reason

Named(it, name) == IsHotspot(it) /\ it.place.name = name

\* C30 as stated: a hotspot named "Community confirmed camera area" carries
\* the reason "Community confirmed camera presence" and has report_yes >= 5;
\* one named "Community reported camera area" carries "Community reports
\* camera presence" and has 2 <= report_yes < 5.
C30_AsStated ==
    Deduplicated =>
        \A i \in DOMAIN fn.scored :
            /\ Named(fn.scored[i], "Community confirmed camera area") =>
                  /\ Says(fn.scored[i], "Community confirmed camera presence")
                  /\ fn.scored[i].report_yes >= 5
            /\ Named(fn.scored[i], "Community reported camera area") =>
                  /\ Says(fn.scored[i], "Community reports camera presence")
                  /\ fn.scored[i].report_yes >= 2
                  /\ fn.scored[i].report_yes < 5

\* C30, what holds for report rows of distinct cells: the reason of a
\* hotspot follows its report_yes, the count of the one cell it stands on,
\* which is at least 2; a hotspot named "Community reported camera area"
\* has report_yes < 5 and the reason "Community reports camera presence";
\* one named "Community confirmed camera area" has either wording.
C30_Wording ==
    Deduplicated =>
        \A i \in DOMAIN fn.scored : IsHotspot(fn.scored[i]) =>
            /\ fn.scored[i].report_yes >= 2
            /\ Says(fn.scored[i], "Community confirmed camera presence")
                  <=> fn.scored[i].report_yes >= 5
            /\ Says(fn.scored[i], "Community reports camera presence")
                  <=> fn.scored[i].report_yes < 5
            /\ Named(fn.scored[i], "Community reported camera area")
                  => fn.scored[i].report_yes < 5

\* two cells of one parent with three and two confirmations: a hotspot
\* named confirmed whose reason says reports, with report_yes 3
C30_Witness ==
    /\ Deduplicated
    /\ fn.cells = CellsPair
    /\ Len(fn.hotspots) = 1
    /\ \E i \in DOMAIN fn.scored :
          /\ Named(fn.scored[i], "Community confirmed camera area")
          /\ Says(fn.scored[i], "Community reports camera presence")
          /\ fn.scored[i].report_yes = 3

-----------------------------------------------------------------------------
(* Properties of the timestamps of the cache *)

\* C28 as stated: the timestamp stored for a key never decreases from one
\* write to the next, under any interleaving of requests.
C28_AsStated ==
    [][\A key \in DOMAIN memCache :
          key \in DOMAIN memCache' /\ memCache'[key].at >= memCache[key].at]_vars

\* C28, what holds: an entry is stamped with the time at which the request
\* that wrote it started, which is not later than the time of the write,
\* and no entry is ever removed.
C28_StartStamp ==
    [][/\ \A key \in DOMAIN memCache : key \in DOMAIN memCache'
       /\ \A r \in Reqs :
             (Completes(r) /\ Stored(req'[r])) =>
                 /\ memCache'[req[r].cacheKey].at = req[r].now
                 /\ req[r].now <= clock]_vars

\* the entry of a key carries the start time of a request although a
\* request of that key that started later has stored its payload before
C28_Witness ==
    \E r \in Reqs : \E o \in Reqs \ {r} :
        /\ Stored(req[r]) /\ Stored(req[o])
        /\ req[r].cacheKey = req[o].cacheKey
        /\ req[r].now < req[o].now
        /\ memCache[req[r].cacheKey].at = req[r].now
        /\ hist.insertedAt[req[r].cacheKey] > req[o].now

-----------------------------------------------------------------------------
(* Properties of the caching of degraded payloads *)

\* one of the sources of the request was degraded to an empty collection
Degraded(q) == q.src # <<>> /\ \E i \in DOMAIN q.src : SourceFailed(q.src[i])

\* a payload computed without report cells: the report source had failed
DegradedData(data) == "meta" \in DOMAIN data /\ data.meta.reportCellsFetched = 0

\* C29 as stated: a payload computed while a source was degraded is
\* written to the cache and is given unchanged to every request of the
\* same key that arrives less than 60 s after it was put there.
C29_AsStated ==
    \A r \in Reqs :
        (/\ req[r].lookups = 1
         /\ req[r].seen # <<>>
         /\ DegradedData(req[r].seen[1].data)
         /\ req[r].now - req[r].seen[1].insertedAt < 60000)
        => (req[r].served = "hit" /\ req[r].resp = req[r].seen[1].data)

\* C29, what holds: a payload computed while a source was degraded is
\* written to the cache stamped with the start time of its request, and is
\* given unchanged, without a call to any source, to every request of the
\* same key that arrives less than 60 s after that start time.
C29_Replayed ==
    [][\A r \in Reqs :
          /\ (Completes(r) /\ Stored(req'[r]) /\ Degraded(req'[r])) =>
                memCache'[req[r].cacheKey] = [at |-> req[r].now, data |-> req'[r].resp]
          /\ (Arrives(r) /\ YoungEntry(req'[r].cacheKey)
              /\ DegradedData(memCache[req'[r].cacheKey].data)) =>
                /\ req'[r].served = "hit"
                /\ req'[r].resp = memCache[req'[r].cacheKey].data
                /\ req'[r].calls = NoCalls
                /\ memCache' = memCache]_vars

\* a request whose report fetch was aborted after 12 s, and a later request
\* of the same key answered with its payload
C29_Witness ==
    \E r \in Reqs : \E o \in Reqs \ {r} :
        /\ Stored(req[o])
        /\ req[o].src[3] = "abort"
        /\ req[r].served = "hit"
        /\ req[r].cacheKey = req[o].cacheKey
        /\ req[r].resp = req[o].resp
        /\ req[r].now >= req[o].now + FetchTimeoutMs
        /\ req[r].resp.meta.reportCellsFetched = 0

====
